---- MODULE Spec2Model ----
(***************************************************************************)
(* A model of the knowledge store of sodian: the in-memory KnowledgeGraph  *)
(* (nodes, links, typed batch updates, topic and weak-link queries, link   *)
(* strengthening and removal), the ExecutiveManager's update reconciler    *)
(* (resolveConflicts), MemoryConsolidation (pattern extraction, link       *)
(* strengthening, insights), the VectorStore (fallback embedding, cosine   *)
(* similarity, search, and the backend it turns to once initialised) and   *)
(* the workflow graph of the orchestrator.                                 *)
(*                                                                         *)
(* Strings are sequences of one-character strings, so that formatting an   *)
(* id, lower-casing, JSON serialisation and substring search are computed  *)
(* character by character as the JavaScript runtime computes them.         *)
(* Strengths are integers in hundredths (1.0 is 100, the increment 0.1 is  *)
(* 10).  An optional field of an update's data is a sequence of length 0   *)
(* (absent) or 1 (present).                                                *)
(***************************************************************************)
EXTENDS Integers, Sequences, FiniteSets, TLC

VARIABLES
    inMemoryNodes,   \* KnowledgeGraph.inMemoryNodes: Map in insertion order
    inMemoryLinks,   \* KnowledgeGraph.inMemoryLinks: array of links
    now,             \* the reading Date.now() / new Date() gives
    batch,           \* updates of the applyUpdates call in progress not yet applied
    call,            \* the operation that acted last, its arguments and its result
    linkTouched,     \* history: for each stored link, the clock reading at which
                     \* it was created or last strengthened
    batchBefore,     \* history: the store as it was when the applyUpdates call in
                     \* progress was made
    recording,       \* whether the behaviour keeps the two histories (fixed by
                     \* the initial state; the properties of Spec read neither)
    activities,      \* the activity log passed to the consolidation call
    patterns,        \* the patterns extractPatterns returned in that call
    rcUpdates,       \* the array passed to resolveConflicts, as the call left it
    rcInput,         \* that array as it was before the call
    rcResult,        \* the array resolveConflicts returned, as indices into rcUpdates
    inMemoryStore,   \* VectorStore.inMemoryStore: array of documents
    collection,      \* VectorStore.collection: "null", or "open" once the backend
                     \* has answered getOrCreateCollection
    initializing,    \* whether initialize(), started by the constructor, is
                     \* still awaiting the backend
    chroma,          \* the documents the backend's collection holds
    state,           \* SodianState of the workflow run: the channels the routing
                     \* reads and the nodes it follows write
    atNode,          \* the node the workflow graph runs next ("END" after the last)
    executed         \* history: the nodes the run has executed, in order

vars ==
    <<inMemoryNodes, inMemoryLinks, now, batch, call, linkTouched, batchBefore,
      recording, activities, patterns, rcUpdates, rcInput, rcResult,
      inMemoryStore, collection, initializing, chroma, state, atNode, executed>>

graphVars ==
    <<inMemoryNodes, inMemoryLinks, now, batch, linkTouched, batchBefore, recording>>
rcVars == <<rcUpdates, rcInput, rcResult>>
cnVars == <<activities, patterns>>
vsVars == <<inMemoryStore, collection, initializing, chroma>>
wfVars == <<state, atNode, executed>>

\* content_classification when it is null
NoClassification == [type |-> "null", urgency |-> "null"]

\* the defaults of the channels of SodianState (null is held as "null")
DefaultState ==
    [content_classification |-> NoClassification, current_agent |-> "null",
     processing_stage |-> "intake", error |-> "null"]

----------------------------------------------------------------------------
(* Bounds of the model *)

MaxClock == 2      \* clock readings are 1..MaxClock
MaxBatch == 2      \* updates per applyUpdates batch
MaxStore == 2      \* nodes and links the store may hold
MaxRcBatch == 3    \* updates per resolveConflicts batch

(* Program constants, in hundredths *)
DefaultStrength == 100   \* 1.0
StrengthCap == 100       \* 1.0
StrengthIncrement == 10  \* 0.1

----------------------------------------------------------------------------
(* Strings *)

Min(a, b) == IF a < b THEN a ELSE b

\* String.prototype.toLowerCase, on the letters the model uses
ToLowerChar(c) ==
    CASE c = "A" -> "a"
      [] c = "B" -> "b"
      [] OTHER -> c

RECURSIVE toLowerCase(_)
toLowerCase(s) ==
    IF s = <<>> THEN <<>> ELSE <<ToLowerChar(s[1])>> \o toLowerCase(Tail(s))

\* String.prototype.includes
includes(s, t) ==
    \E i \in 0..(Len(s) - Len(t)) : SubSeq(s, i + 1, i + Len(t)) = t

\* UTF-16 code units of the characters the model uses
CharCode(c) ==
    CASE c = "\"" -> 34
      [] c = ":" -> 58
      [] c = "A" -> 65
      [] c = "B" -> 66
      [] c = "\\" -> 92
      [] c = "a" -> 97
      [] c = "b" -> 98
      [] c = "n" -> 110
      [] c = "x" -> 120
      [] OTHER -> 0

RECURSIVE StrLess(_, _)
\* s < t as JavaScript compares strings: by code units, a prefix first
StrLess(s, t) ==
    IF t = <<>> THEN FALSE
    ELSE IF s = <<>> THEN TRUE
    ELSE IF CharCode(s[1]) # CharCode(t[1]) THEN CharCode(s[1]) < CharCode(t[1])
    ELSE StrLess(Tail(s), Tail(t))

DigitChar(d) == <<"0", "1", "2", "3", "4", "5", "6", "7", "8", "9">>[d + 1]

RECURSIVE NumToStr(_)
\* `${n}` for a non-negative integer
NumToStr(n) ==
    IF n < 10 THEN <<DigitChar(n)>>
    ELSE NumToStr(n \div 10) \o <<DigitChar(n % 10)>>

RECURSIVE JSONEscape(_)
\* the characters of a string as JSON.stringify writes them between the quotes
JSONEscape(s) ==
    IF s = <<>> THEN <<>>
    ELSE (CASE s[1] = "\"" -> <<"\\", "\"">>
            [] s[1] = "\\" -> <<"\\", "\\">>
            [] OTHER -> <<s[1]>>) \o JSONEscape(Tail(s))

JSONString(s) == <<"\"">> \o JSONEscape(s) \o <<"\"">>

RECURSIVE JSONMembers(_)
JSONMembers(props) ==
    IF props = <<>> THEN <<>>
    ELSE JSONString(props[1][1]) \o <<":">> \o JSONString(props[1][2])
         \o (IF Len(props) > 1 THEN <<",">> ELSE <<>>)
         \o JSONMembers(Tail(props))

\* JSON.stringify of an object whose values are strings; props is the
\* object's key/value pairs in insertion order
JSONStringifyObject(props) == <<"{">> \o JSONMembers(props) \o <<"}">>

RECURSIVE JSONElements(_)
JSONElements(arr) ==
    IF arr = <<>> THEN <<>>
    ELSE JSONString(arr[1])
         \o (IF Len(arr) > 1 THEN <<",">> ELSE <<>>)
         \o JSONElements(Tail(arr))

\* JSON.stringify of an array of strings
JSONStringifyArray(arr) == <<"[">> \o JSONElements(arr) \o <<"]">>

----------------------------------------------------------------------------
(* KnowledgeGraphUpdate values *)

K_content == <<"c", "o", "n", "t", "e", "n", "t">>
K_name == <<"n", "a", "m", "e">>
K_topic == <<"t", "o", "p", "i", "c">>

\* data: Record<string, unknown>.  props are the string-valued keys that end
\* up in a node's properties; the other fields are the keys the link and tag
\* handlers read.
\* tagsGiven tells an empty tags array from a data object with no tags key.
EmptyData ==
    [props |-> <<>>, source |-> <<>>, target |-> <<>>, relationship |-> <<>>,
     strength |-> <<>>, bidirectional |-> FALSE, tags |-> <<>>, tagsGiven |-> FALSE]

KnowledgeGraphUpdate(type, action, data) ==
    [type |-> type, action |-> action, data |-> data]

NoteData(content) == [EmptyData EXCEPT !.props = << <<K_content, content>> >>]
OpaqueData(topic) == [EmptyData EXCEPT !.props = << <<K_topic, topic>> >>]
TagData(tags) == [EmptyData EXCEPT !.tags = tags, !.tagsGiven = TRUE]
LinkData(source, target, strength, bidirectional) ==
    [EmptyData EXCEPT !.source = source, !.target = target,
                      !.relationship = <<"x">>, !.strength = strength,
                      !.bidirectional = bidirectional]

----------------------------------------------------------------------------
(* KnowledgeGraph: the in-memory store *)

NoteId(t) == <<"n", "o", "t", "e", "_">> \o NumToStr(t)
LinkId(t) == <<"l", "i", "n", "k", "_">> \o NumToStr(t)
TagId(tag) == <<"t", "a", "g", "_">> \o tag
LearningId(t) == <<"l", "e", "a", "r", "n", "i", "n", "g", "_">> \o NumToStr(t)
PatternId(t) == <<"p", "a", "t", "t", "e", "r", "n", "_">> \o NumToStr(t)

GraphNode(id, type, properties, t) ==
    [id |-> id, type |-> type, properties |-> properties,
     createdAt |-> t, updatedAt |-> t]

MapHas(m, id) == \E i \in 1..Len(m) : m[i].id = id

MapIndex(m, id) == CHOOSE i \in 1..Len(m) : m[i].id = id

\* a Map of one entry at most: a new key takes the place of the oldest entry
MapSetEvicting(m, id, node) ==
    IF MapHas(m, id)
    THEN [m EXCEPT ![MapIndex(m, id)] = node]
    ELSE IF m = <<>> THEN <<node>> ELSE Append(Tail(m), node)

\* Map.prototype.set: an existing key keeps its place and gets the new value
MapSet(m, id, node) ==
    IF MapHas(m, id)
    THEN [m EXCEPT ![MapIndex(m, id)] = node]
    ELSE Append(m, node)

handleNoteUpdate(nodes, update, t) ==
    MapSet(nodes, NoteId(t), GraphNode(NoteId(t), "Note", update.data.props, t))

\* data.strength as number || 1.0: an absent strength and the falsy number 0
\* both give the default
LinkStrength(data) ==
    IF data.strength = <<>> \/ data.strength[1] = 0
    THEN DefaultStrength
    ELSE data.strength[1]

handleLinkUpdate(links, update, t) ==
    Append(links,
           [id |-> LinkId(t),
            source |-> update.data.source,
            target |-> update.data.target,
            relationship |-> update.data.relationship,
            strength |-> LinkStrength(update.data),
            bidirectional |-> update.data.bidirectional])

\* the loop body without the has() test: set() on every tag
TagNodeSetAlways(nodes, tag, t) ==
    MapSet(nodes, TagId(tag), GraphNode(TagId(tag), "Tag", << <<K_name, tag>> >>, t))

\* the body of the loop of handleTagUpdate
TagNodeSet(nodes, tag, t) ==
    IF ~MapHas(nodes, TagId(tag))
    THEN MapSet(nodes, TagId(tag),
                GraphNode(TagId(tag), "Tag", << <<K_name, tag>> >>, t))
    ELSE nodes

RECURSIVE TagLoop(_, _, _)
TagLoop(nodes, tags, t) ==
    IF tags = <<>> THEN nodes
    ELSE TagLoop(TagNodeSet(nodes, tags[1], t), Tail(tags), t)

handleTagUpdate(nodes, update, t) == TagLoop(nodes, update.data.tags, t)

\* for (const tag of tags) on a data object with no tags key: tags is
\* undefined, the loop raises a TypeError before it handles any tag
Throws(update) == update.type = "tag" /\ ~update.data.tagsGiven

handleLearningUpdate(nodes, update, t) ==
    MapSet(nodes, LearningId(t),
           GraphNode(LearningId(t), "LearningPath", update.data.props, t))

handlePatternUpdate(nodes, update, t) ==
    MapSet(nodes, PatternId(t),
           GraphNode(PatternId(t), "MetaPattern", update.data.props, t))

\* a switch that reads the action too: an update with action delete creates
\* nothing
DispatchNodesByAction(nodes, update, t) ==
    CASE update.action = "delete" -> nodes
      [] update.type = "note" -> handleNoteUpdate(nodes, update, t)
      [] update.type = "tag" -> handleTagUpdate(nodes, update, t)
      [] update.type \in {"learning_path", "learning_progress"} ->
            handleLearningUpdate(nodes, update, t)
      [] update.type = "meta_pattern" -> handlePatternUpdate(nodes, update, t)
      [] OTHER -> nodes

\* the switch of applyUpdates: the store after one update is handled at
\* clock reading t
DispatchNodes(nodes, update, t) ==
    CASE update.type = "note" -> handleNoteUpdate(nodes, update, t)
      [] update.type = "tag" -> handleTagUpdate(nodes, update, t)
      [] update.type \in {"learning_path", "learning_progress"} ->
            handleLearningUpdate(nodes, update, t)
      [] update.type = "meta_pattern" -> handlePatternUpdate(nodes, update, t)
      [] OTHER -> nodes

DispatchLinks(links, update, t) ==
    IF update.type = "link" THEN handleLinkUpdate(links, update, t) ELSE links

\* the node filter with the serialisation left in the case it has
QueryNodesCaseSensitive(nodes, topic) ==
    SelectSeq(nodes,
              LAMBDA node :
                  includes(JSONStringifyObject(node.properties), toLowerCase(topic)))

\* the node filter of the in-memory branch of query
QueryNodes(nodes, topic) ==
    SelectSeq(nodes,
              LAMBDA node :
                  includes(toLowerCase(JSONStringifyObject(node.properties)),
                           toLowerCase(topic)))

query(nodes, links, topic) ==
    LET matchingNodes == QueryNodes(nodes, topic)
        matchingLinks ==
            SelectSeq(links,
                      LAMBDA link :
                          \E i \in 1..Len(matchingNodes) :
                              \/ matchingNodes[i].id = link.source
                              \/ matchingNodes[i].id = link.target)
    IN  [nodes |-> matchingNodes, links |-> matchingLinks]

DayMs == 24 * 60 * 60 * 1000

\* the filter with <= in the place of <
queryWeakLinksUpTo(links, options, t) ==
    LET cutoffDate == t - options.days * DayMs
    IN  SelectSeq(links, LAMBDA link : link.strength <= options.threshold)

\* options: {days, threshold}; t is the reading new Date() gives.  cutoffDate
\* is computed and the filter does not use it.
queryWeakLinks(links, options, t) ==
    LET cutoffDate == t - options.days * DayMs
    IN  SelectSeq(links, LAMBDA link : link.strength < options.threshold)

\* Array.prototype.find / findIndex: the first index that matches, 0 if none
FindLink(links, source, target) ==
    IF \E i \in 1..Len(links) : links[i].source = source /\ links[i].target = target
    THEN CHOOSE i \in 1..Len(links) :
            /\ links[i].source = source /\ links[i].target = target
            /\ \A j \in 1..(i - 1) :
                  ~(links[j].source = source /\ links[j].target = target)
    ELSE 0

\* the search taken in both directions
incrementLinkWeightEitherWay(links, source, target) ==
    LET i == IF FindLink(links, source, target) > 0
             THEN FindLink(links, source, target)
             ELSE FindLink(links, target, source)
    IN  IF i > 0
        THEN [links EXCEPT ![i].strength =
                 Min(StrengthCap, links[i].strength + StrengthIncrement)]
        ELSE links

incrementLinkWeight(links, source, target) ==
    LET i == FindLink(links, source, target)
    IN  IF i > 0
        THEN [links EXCEPT ![i].strength =
                 Min(StrengthCap, links[i].strength + StrengthIncrement)]
        ELSE links

FindLinkById(links, linkId) ==
    IF \E i \in 1..Len(links) : links[i].id = linkId
    THEN CHOOSE i \in 1..Len(links) :
            links[i].id = linkId /\ \A j \in 1..(i - 1) : links[j].id # linkId
    ELSE 0

removeLink(links, linkId) ==
    LET i == FindLinkById(links, linkId)
    IN  IF i > 0
        THEN SubSeq(links, 1, i - 1) \o SubSeq(links, i + 1, Len(links))
        ELSE links

getStats(nodes, links) == [nodes |-> Len(nodes), links |-> Len(links)]


----------------------------------------------------------------------------
(* The inputs the model draws from *)

Tag_a == <<"a">>
Tag_A == <<"A">>
Tag_b == <<"b">>

NoteContents == {<<"A", "\"">>}
Topics == {<<"a">>, <<"a", "\"">>, <<"n">>}
TagArrays == {<<Tag_a>>, <<Tag_A, Tag_a, Tag_a>>}
Endpoints == {NoteId(1), <<"x">>}
LinkStrengths == {<<>>, <<150>>}
LinkIds == {LinkId(t) : t \in 1..MaxClock}

NoteUpdates ==
    {KnowledgeGraphUpdate("note", "create", NoteData(c)) : c \in NoteContents}
TagUpdates ==
    {KnowledgeGraphUpdate("tag", "create", TagData(tags)) : tags \in TagArrays}
LinkUpdates ==
    {KnowledgeGraphUpdate("link", "create", LinkData(e[1], e[2], s, FALSE)) :
        e \in {<<NoteId(1), <<"x">>>>},
        s \in LinkStrengths}
OtherUpdates ==
    {KnowledgeGraphUpdate(type, "create", OpaqueData(<<"b">>)) :
        type \in {"learning_path", "learning_progress", "meta_pattern"}}

Updates == NoteUpdates \cup TagUpdates \cup LinkUpdates \cup OtherUpdates

SeqsUpTo(S, n) == UNION {[1..k -> S] : k \in 1..n}

\* distinct elements of a sequence
Range(s) == {s[i] : i \in 1..Len(s)}

\* the node ids an update adds to a store that holds the ids in present, at
\* most: a Tag id per tag not yet stored, a fresh id for a time-keyed node
TagIdsOf(update) == {TagId(g) : g \in Range(update.data.tags)}

Room(present, update) ==
    CASE update.type = "link" -> 1
      [] update.type = "tag" -> Cardinality(TagIdsOf(update) \ present)
      [] OTHER -> 1

RECURSIVE FittingBatches(_, _, _)
\* the batches of at most n updates that add at most room nodes and links
FittingBatches(present, room, n) ==
    IF n = 0 THEN {}
    ELSE UNION {
           IF Room(present, u) > room THEN {}
           ELSE {<<u>>} \cup
                {<<u>> \o rest :
                    rest \in FittingBatches(
                        IF u.type = "tag" THEN present \cup TagIdsOf(u) ELSE present,
                        room - Room(present, u), n - 1)}
           : u \in Updates}

----------------------------------------------------------------------------
(* The operations of the store as actions *)

NoUpdate == KnowledgeGraphUpdate("none", "none", EmptyData)
NoResult == [nodes |-> <<>>, links |-> <<>>]

NoSnapshot == [nodes |-> <<>>, links |-> <<>>]

\* the history of the links: the reading at which each was last touched
RemoveAt(s, i) == SubSeq(s, 1, i - 1) \o SubSeq(s, i + 1, Len(s))

TouchedByUpdate(touched, update, t) ==
    IF recording /\ update.type = "link" THEN Append(touched, t) ELSE touched

TouchedByIncrement(touched, links, source, target, t) ==
    LET i == FindLink(links, source, target)
    IN  IF recording /\ i > 0 THEN [touched EXCEPT ![i] = t] ELSE touched

TouchedByRemove(touched, links, linkId) ==
    LET i == FindLinkById(links, linkId)
    IN  IF recording /\ i > 0 THEN RemoveAt(touched, i) ELSE touched

\* again: the operation applied the update the operation before it applied;
\* threw: the operation ended in an error raised to its caller
Call(op, update, args, result) ==
    [op |-> op, update |-> update, args |-> args, result |-> result,
     again |-> (op = "applyUpdates" /\ call.op = "applyUpdates" /\ call.update = update),
     threw |-> FALSE]

Init ==
    /\ inMemoryNodes = <<>>
    /\ inMemoryLinks = <<>>
    /\ now = 1
    /\ batch = <<>>
    /\ call = [op |-> "new", update |-> NoUpdate, args |-> <<>>,
               result |-> NoResult, again |-> FALSE, threw |-> FALSE]
    /\ linkTouched = <<>>
    /\ batchBefore = NoSnapshot
    /\ recording = FALSE
    /\ activities = <<>>
    /\ patterns = <<>>
    /\ rcUpdates = <<>>
    /\ rcInput = <<>>
    /\ rcResult = <<>>
    /\ inMemoryStore = <<>>
    /\ collection = "null"
    /\ initializing = FALSE
    /\ chroma = <<>>
    /\ state = DefaultState
    /\ atNode = "classification"
    /\ executed = <<>>

\* the clock moves on between any two steps
Tick ==
    /\ now < MaxClock
    /\ now' = now + 1
    /\ UNCHANGED <<inMemoryNodes, inMemoryLinks, batch, call, linkTouched,
                   batchBefore, recording, rcVars, cnVars, vsVars, wfVars>>

\* the loop with the failure of an update caught inside it: the error is
\* raised and the loop goes on with the rest
ApplyOneContinues(update, rest, before) ==
    /\ IF Throws(update)
       THEN /\ UNCHANGED <<inMemoryNodes, inMemoryLinks, linkTouched>>
            /\ batch' = rest
            /\ batchBefore' = IF rest = <<>> \/ ~recording THEN NoSnapshot ELSE before
            /\ call' = [Call("applyUpdates", update, <<>>, NoResult)
                           EXCEPT !.threw = TRUE]
       ELSE /\ inMemoryNodes' = DispatchNodes(inMemoryNodes, update, now)
            /\ inMemoryLinks' = DispatchLinks(inMemoryLinks, update, now)
            /\ linkTouched' = TouchedByUpdate(linkTouched, update, now)
            /\ batch' = rest
            /\ batchBefore' = IF rest = <<>> \/ ~recording THEN NoSnapshot ELSE before
            /\ call' = Call("applyUpdates", update, <<>>, NoResult)
    /\ UNCHANGED <<now, recording, rcVars, cnVars, vsVars, wfVars>>

\* one iteration of the loop of applyUpdates: the update is handled
\* synchronously, then the await gives other callers a turn.  An update whose
\* handler throws leaves the store as it is, ends the loop (the catch block
\* rethrows) and the rest of the batch is never handled.
ApplyOne(update, rest, before) ==
    /\ IF Throws(update)
       THEN /\ UNCHANGED <<inMemoryNodes, inMemoryLinks, linkTouched>>
            /\ batch' = <<>>
            /\ batchBefore' = NoSnapshot
            /\ call' = [Call("applyUpdates", update, <<>>, NoResult)
                           EXCEPT !.threw = TRUE]
       ELSE /\ inMemoryNodes' = DispatchNodes(inMemoryNodes, update, now)
            /\ inMemoryLinks' = DispatchLinks(inMemoryLinks, update, now)
            /\ linkTouched' = TouchedByUpdate(linkTouched, update, now)
            /\ batch' = rest
            /\ batchBefore' = IF rest = <<>> \/ ~recording THEN NoSnapshot ELSE before
            /\ call' = Call("applyUpdates", update, <<>>, NoResult)
    /\ UNCHANGED <<now, recording, rcVars, cnVars, vsVars, wfVars>>

\* the batches the store has room for
Batches ==
    FittingBatches({inMemoryNodes[i].id : i \in 1..Len(inMemoryNodes)},
                   MaxStore - Len(inMemoryNodes) - Len(inMemoryLinks), MaxBatch)

\* applyUpdates(updates) up to its first await
ApplyUpdates(updates) ==
    /\ batch = <<>>
    /\ ApplyOne(Head(updates), Tail(updates),
                [nodes |-> inMemoryNodes, links |-> inMemoryLinks])

\* applyUpdates resumes after an await and handles the next update
ApplyNext ==
    /\ batch # <<>>
    /\ ApplyOne(Head(batch), Tail(batch), batchBefore)

Query(topic) ==
    /\ call' = Call("query", NoUpdate, <<topic>>,
                    query(inMemoryNodes, inMemoryLinks, topic))
    /\ UNCHANGED <<graphVars, rcVars, cnVars, vsVars, wfVars>>

QueryWeakLinks(options) ==
    /\ call' = Call("queryWeakLinks", NoUpdate, <<options>>,
                    [nodes |-> <<>>,
                     links |-> queryWeakLinks(inMemoryLinks, options, now)])
    /\ UNCHANGED <<graphVars, rcVars, cnVars, vsVars, wfVars>>

GetStats ==
    /\ call' = Call("getStats", NoUpdate, <<>>, getStats(inMemoryNodes, inMemoryLinks))
    /\ UNCHANGED <<graphVars, rcVars, cnVars, vsVars, wfVars>>

IncrementLinkWeight(source, target) ==
    /\ inMemoryLinks' = incrementLinkWeight(inMemoryLinks, source, target)
    /\ linkTouched' = TouchedByIncrement(linkTouched, inMemoryLinks, source, target, now)
    /\ call' = Call("incrementLinkWeight", NoUpdate, <<source, target>>, NoResult)
    /\ UNCHANGED <<inMemoryNodes, now, batch, batchBefore, recording, rcVars, cnVars, vsVars, wfVars>>

RemoveLink(linkId) ==
    /\ inMemoryLinks' = removeLink(inMemoryLinks, linkId)
    /\ linkTouched' = TouchedByRemove(linkTouched, inMemoryLinks, linkId)
    /\ call' = Call("removeLink", NoUpdate, <<linkId>>, NoResult)
    /\ UNCHANGED <<inMemoryNodes, now, batch, batchBefore, recording, rcVars, cnVars, vsVars, wfVars>>

Next ==
    \/ Tick
    \/ \E updates \in Batches : ApplyUpdates(updates)
    \/ ApplyNext
    \/ \E topic \in Topics : Query(topic)
    \/ \E source \in Endpoints : \E target \in Endpoints \ {source} :
          IncrementLinkWeight(source, target)
    \/ \E linkId \in LinkIds : RemoveLink(linkId)

Spec == Init /\ [][Next]_vars

----------------------------------------------------------------------------
(* The store under link maintenance: link updates between two notes, batches *)
(* with an update that fails, the weak-link query, getStats, strengthening   *)
(* and removal.  The histories are kept.                                      *)

MaxLinks == 2      \* links the store may hold

LkEndpoints == {<<"a">>, <<"b">>}
LkStrengths == {<<>>, <<95>>}

\* links from note a to note b, and one from b to a
LkLinkUpdates ==
    {KnowledgeGraphUpdate("link", "create", LinkData(<<"a">>, <<"b">>, s, FALSE)) :
        s \in LkStrengths}
    \cup {KnowledgeGraphUpdate("link", "create",
                               LinkData(<<"b">>, <<"a">>, <<95>>, FALSE))}

\* a tag update whose data has no tags key
TagUpdateNoTags == KnowledgeGraphUpdate("tag", "create", EmptyData)

LkUpdates == LkLinkUpdates \cup {TagUpdateNoTags}

LinkCount(updates) == Cardinality({i \in 1..Len(updates) : updates[i].type = "link"})

\* the batches the store has room for
LkBatches ==
    {updates \in SeqsUpTo(LkUpdates, MaxBatch) :
        LinkCount(updates) <= MaxLinks - Len(inMemoryLinks)}

WeakOptions == {[days |-> days, threshold |-> threshold] :
                   days \in {0, 1}, threshold \in {95, 100}}

InitLinks ==
    /\ inMemoryNodes = <<>>
    /\ inMemoryLinks = <<>>
    /\ now = 1
    /\ batch = <<>>
    /\ call = [op |-> "new", update |-> NoUpdate, args |-> <<>>,
               result |-> NoResult, again |-> FALSE, threw |-> FALSE]
    /\ linkTouched = <<>>
    /\ batchBefore = NoSnapshot
    /\ recording = TRUE
    /\ activities = <<>>
    /\ patterns = <<>>
    /\ rcUpdates = <<>>
    /\ rcInput = <<>>
    /\ rcResult = <<>>
    /\ inMemoryStore = <<>>
    /\ collection = "null"
    /\ initializing = FALSE
    /\ chroma = <<>>
    /\ state = DefaultState
    /\ atNode = "classification"
    /\ executed = <<>>

NextLinks ==
    \/ Tick
    \/ \E updates \in LkBatches : ApplyUpdates(updates)
    \/ ApplyNext
    \/ \E options \in WeakOptions : QueryWeakLinks(options)
    \/ GetStats
    \/ \E source \in LkEndpoints : \E target \in LkEndpoints \ {source} :
          IncrementLinkWeight(source, target)
    \/ \E linkId \in LinkIds : RemoveLink(linkId)

SpecLinks == InitLinks /\ [][NextLinks]_vars

----------------------------------------------------------------------------
(* ExecutiveManager.resolveConflicts *)

RECURSIVE InsertSorted(_, _)
InsertSorted(sorted, x) ==
    IF sorted = <<>> THEN <<x>>
    ELSE IF StrLess(x, sorted[1]) THEN <<x>> \o sorted
    ELSE <<sorted[1]>> \o InsertSorted(Tail(sorted), x)

RECURSIVE ArraySort(_)
\* Array.prototype.sort with the default comparison, on an array of strings
\* (stable: an element goes after the elements equal to it)
ArraySort(arr) ==
    IF arr = <<>> THEN <<>>
    ELSE InsertSorted(ArraySort(SubSeq(arr, 1, Len(arr) - 1)), arr[Len(arr)])

RECURSIVE SortTagsInPlace(_)
\* update.data.tags?.sort() sorts the caller's array: the input batch after
\* the filter callback has visited every update
SortTagsInPlace(updates) ==
    IF updates = <<>> THEN <<>>
    ELSE <<IF updates[1].type = "tag"
           THEN [updates[1] EXCEPT !.data.tags = ArraySort(@)]
           ELSE updates[1]>> \o SortTagsInPlace(Tail(updates))

\* JSON.stringify(update.data.tags?.sort()); of undefined it is undefined,
\* held as the empty text, which no array serialises to
TagKey(update) ==
    IF update.data.tagsGiven THEN JSONStringifyArray(update.data.tags) ELSE <<>>

RECURSIVE Deduped(_, _, _)
\* the filter of resolveConflicts from index i on: the indices kept, given
\* the keys in seenTags; updates already has its tag arrays sorted
Deduped(updates, i, seenTags) ==
    IF i > Len(updates) THEN <<>>
    ELSE IF updates[i].type = "tag"
         THEN IF TagKey(updates[i]) \in seenTags
              THEN Deduped(updates, i + 1, seenTags)
              ELSE <<i>> \o Deduped(updates, i + 1, seenTags \cup {TagKey(updates[i])})
         ELSE <<i>> \o Deduped(updates, i + 1, seenTags)

\* a > b on two optional numbers: false when either is undefined
GreaterStrength(a, b) == a # <<>> /\ b # <<>> /\ a[1] > b[1]

LinkMapHas(linkMap, target) == \E k \in 1..Len(linkMap) : linkMap[k][1] = target

LinkMapIndex(linkMap, target) == CHOOSE k \in 1..Len(linkMap) : linkMap[k][1] = target

\* one iteration of the link loop on update index i; linkMap is the Map as
\* its <<target, index>> entries in insertion order
LinkMapStep(updates, linkMap, i) ==
    LET target == updates[i].data.target
    IN  IF LinkMapHas(linkMap, target)
        THEN LET k == LinkMapIndex(linkMap, target)
             IN  IF GreaterStrength(updates[i].data.strength,
                                    updates[linkMap[k][2]].data.strength)
                 THEN [linkMap EXCEPT ![k] = <<target, i>>]
                 ELSE linkMap
        ELSE Append(linkMap, <<target, i>>)

RECURSIVE LinkMapValues(_)
\* linkMap.values(), as indices
LinkMapValues(linkMap) ==
    IF linkMap = <<>> THEN <<>>
    ELSE <<linkMap[1][2]>> \o LinkMapValues(Tail(linkMap))

RECURSIVE LinkLoop(_, _, _, _)
\* the second loop: [...nonLinks, ...linkMap.values()] as indices
LinkLoop(updates, deduped, nonLinks, linkMap) ==
    IF deduped = <<>>
    THEN nonLinks \o LinkMapValues(linkMap)
    ELSE IF updates[deduped[1]].type = "link"
         THEN LinkLoop(updates, Tail(deduped), nonLinks,
                       LinkMapStep(updates, linkMap, deduped[1]))
         ELSE LinkLoop(updates, Tail(deduped), Append(nonLinks, deduped[1]), linkMap)

\* the returned array, each element the index of the input object it is
resolveConflicts(updates) ==
    LET sorted == SortTagsInPlace(updates)
    IN  LinkLoop(sorted, Deduped(sorted, 1, {}), <<>>, <<>>)

RcTagArrays == {<<Tag_a>>, <<Tag_a, Tag_a>>, <<Tag_b, Tag_a>>, <<Tag_a, Tag_b>>}
RcTargets == {<<"x">>, <<"n">>}
RcStrengths == {<<>>, <<30>>, <<80>>}

RcUpdatesDomain ==
    {KnowledgeGraphUpdate("tag", "create", TagData(tags)) : tags \in RcTagArrays}
    \cup {KnowledgeGraphUpdate("link", "create", LinkData(<<"a">>, target, s, FALSE)) :
             target \in RcTargets, s \in RcStrengths}
    \cup {KnowledgeGraphUpdate("note", "create", NoteData(<<"a">>)),
          KnowledgeGraphUpdate("meta_pattern", "create", OpaqueData(<<"b">>))}

RcBatches == SeqsUpTo(RcUpdatesDomain, MaxRcBatch)

\* a batch of pending updates, not yet reconciled
InitRc ==
    /\ inMemoryNodes = <<>>
    /\ inMemoryLinks = <<>>
    /\ now = 1
    /\ batch = <<>>
    /\ call = [op |-> "new", update |-> NoUpdate, args |-> <<>>,
               result |-> NoResult, again |-> FALSE, threw |-> FALSE]
    /\ linkTouched = <<>>
    /\ batchBefore = NoSnapshot
    /\ recording = FALSE
    /\ activities = <<>>
    /\ patterns = <<>>
    /\ rcInput \in RcBatches
    /\ rcUpdates = rcInput
    /\ rcResult = <<>>
    /\ inMemoryStore = <<>>
    /\ collection = "null"
    /\ initializing = FALSE
    /\ chroma = <<>>
    /\ state = DefaultState
    /\ atNode = "classification"
    /\ executed = <<>>

\* resolveConflicts(rcUpdates), called once on the pending batch
ResolveConflicts ==
    /\ call.op = "new"
    /\ rcUpdates' = SortTagsInPlace(rcUpdates)
    /\ rcResult' = resolveConflicts(rcUpdates)
    /\ call' = Call("resolveConflicts", NoUpdate, <<>>, NoResult)
    /\ UNCHANGED <<graphVars, rcInput, cnVars, vsVars, wfVars>>

NextRc == ResolveConflicts

SpecRc == InitRc /\ [][NextRc]_vars

----------------------------------------------------------------------------
(* MemoryConsolidation *)

\* An activity is {noteId, timestamp}.  A timestamp is an ISO-8601 string of
\* minute resolution, held as its count of minutes since the epoch;
\* new Date(timestamp).getTime() gives it in milliseconds.
MinuteMs == 60 * 1000
WindowMs == 5 * 60 * 1000

Activity(noteId, timestamp) == [noteId |-> noteId, timestamp |-> timestamp]

DateGetTime(timestamp) == timestamp * MinuteMs

Abs(x) == IF x < 0 THEN 0 - x ELSE x
Max(a, b) == IF a > b THEN a ELSE b

Separator == <<":", ":">>

\* [noteId1, noteId2].sort().join('::')
PairKey(noteId1, noteId2) ==
    LET sorted == ArraySort(<<noteId1, noteId2>>)
    IN  sorted[1] \o Separator \o sorted[2]

RECURSIVE SplitKey(_, _)
\* key.split('::'): the pieces of key between the occurrences of the
\* separator, found from the left; piece is the piece being read
SplitKey(key, piece) ==
    IF key = <<>> THEN <<piece>>
    ELSE IF Len(key) >= 2 /\ SubSeq(key, 1, 2) = Separator
         THEN <<piece>> \o SplitKey(SubSeq(key, 3, Len(key)), <<>>)
         ELSE SplitKey(Tail(key), Append(piece, key[1]))

\* accessPairs: the Map as its entries in insertion order
PairsHas(accessPairs, key) == \E k \in 1..Len(accessPairs) : accessPairs[k].key = key

PairsIndex(accessPairs, key) ==
    CHOOSE k \in 1..Len(accessPairs) : accessPairs[k].key = key

\* the body of the inner loop on activity1 = log[i], activity2 = log[j]
CoAccess(accessPairs, activity1, activity2) ==
    LET timeDiff == Abs(DateGetTime(activity1.timestamp)
                          - DateGetTime(activity2.timestamp))
        key == PairKey(activity1.noteId, activity2.noteId)
        existing == IF PairsHas(accessPairs, key)
                    THEN accessPairs[PairsIndex(accessPairs, key)]
                    ELSE [key |-> key, count |-> 0, lastAccess |-> 0]
        entry == [key |-> key,
                  count |-> existing.count + 1,
                  lastAccess |-> Max(existing.lastAccess,
                                     DateGetTime(activity1.timestamp))]
    IN  IF timeDiff < WindowMs
        THEN IF PairsHas(accessPairs, key)
             THEN [accessPairs EXCEPT ![PairsIndex(accessPairs, key)] = entry]
             ELSE Append(accessPairs, entry)
        ELSE accessPairs

RECURSIVE PairLoop(_, _, _, _)
\* the two nested loops from (i, j) on
PairLoop(log, i, j, accessPairs) ==
    IF i > Len(log) THEN accessPairs
    ELSE IF j > Len(log) THEN PairLoop(log, i + 1, i + 2, accessPairs)
    ELSE PairLoop(log, i, j + 1, CoAccess(accessPairs, log[i], log[j]))

RECURSIVE ToPatterns(_)
\* const [source, target] = key.split('::') for every entry of the Map
ToPatterns(accessPairs) ==
    IF accessPairs = <<>> THEN <<>>
    ELSE LET pieces == SplitKey(accessPairs[1].key, <<>>)
         IN  <<[sourceNote |-> pieces[1],
                targetNote |-> pieces[2],
                frequency |-> accessPairs[1].count,
                lastAccessed |-> accessPairs[1].lastAccess]>>
             \o ToPatterns(Tail(accessPairs))

extractPatterns(log) == ToPatterns(PairLoop(log, 1, 2, <<>>))

MinFrequency == 2

RECURSIVE strengthenLinksCreating(_, _, _, _, _)
\* the loop with a link created where none is found
strengthenLinksCreating(links, touched, ps, strengthened, t) ==
    IF ps = <<>>
    THEN [links |-> links, touched |-> touched, strengthened |-> strengthened]
    ELSE IF ps[1].frequency > MinFrequency
         THEN strengthenLinksCreating(
                  IF FindLink(links, ps[1].sourceNote, ps[1].targetNote) > 0
                  THEN incrementLinkWeight(links, ps[1].sourceNote, ps[1].targetNote)
                  ELSE Append(links,
                              [id |-> LinkId(t), source |-> ps[1].sourceNote,
                               target |-> ps[1].targetNote, relationship |-> <<"x">>,
                               strength |-> StrengthIncrement, bidirectional |-> FALSE]),
                  touched, Tail(ps), strengthened + 1, t)
         ELSE strengthenLinksCreating(links, touched, Tail(ps), strengthened, t)

RECURSIVE strengthenLinks(_, _, _, _, _)
\* the loop of strengthenLinks from the patterns ps on: the links, their
\* history and the counter after it
strengthenLinks(links, touched, ps, strengthened, t) ==
    IF ps = <<>>
    THEN [links |-> links, touched |-> touched, strengthened |-> strengthened]
    ELSE IF ps[1].frequency > MinFrequency
         THEN strengthenLinks(
                  incrementLinkWeight(links, ps[1].sourceNote, ps[1].targetNote),
                  TouchedByIncrement(touched, links, ps[1].sourceNote,
                                     ps[1].targetNote, t),
                  Tail(ps), strengthened + 1, t)
         ELSE strengthenLinks(links, touched, Tail(ps), strengthened, t)

\* connectionCounts: the Map as <<note, count>> entries in insertion order
CountsAdd(counts, note, frequency) ==
    IF \E k \in 1..Len(counts) : counts[k][1] = note
    THEN LET k == CHOOSE k \in 1..Len(counts) : counts[k][1] = note
         IN  [counts EXCEPT ![k] = <<note, counts[k][2] + frequency>>]
    ELSE Append(counts, <<note, frequency>>)

RECURSIVE ConnectionCounts(_, _)
ConnectionCounts(ps, counts) ==
    IF ps = <<>> THEN counts
    ELSE ConnectionCounts(
             Tail(ps),
             CountsAdd(CountsAdd(counts, ps[1].sourceNote, ps[1].frequency),
                       ps[1].targetNote, ps[1].frequency))

RECURSIVE InsertByCount(_, _)
InsertByCount(sorted, entry) ==
    IF sorted = <<>> THEN <<entry>>
    ELSE IF entry[2] > sorted[1][2] THEN <<entry>> \o sorted
    ELSE <<sorted[1]>> \o InsertByCount(Tail(sorted), entry)

RECURSIVE SortByCount(_)
\* entries.sort((a, b) => b[1] - a[1]): by count, highest first, stable
SortByCount(entries) ==
    IF entries = <<>> THEN <<>>
    ELSE InsertByCount(SortByCount(SubSeq(entries, 1, Len(entries) - 1)),
                       entries[Len(entries)])

TopConnected == 3

\* an insight, by what its text reports: the notes it names or the number
\* of new connections
Insight(kind, notes, count) == [kind |-> kind, notes |-> notes, count |-> count]

\* the filter without the test of the age: every pattern seen once is new
generateInsightsAnyAge(ps, t) ==
    LET sorted == SortByCount(ConnectionCounts(ps, <<>>))
        newConnections == SelectSeq(ps, LAMBDA p : p.frequency = 1)
    IN  (IF Len(sorted) >= TopConnected
         THEN <<Insight("most_connected",
                        <<sorted[1][1], sorted[2][1], sorted[3][1]>>, 0)>>
         ELSE <<>>)
        \o (IF Len(newConnections) > 0
            THEN <<Insight("new_connections", <<>>, Len(newConnections))>>
            ELSE <<>>)

generateInsights(ps, t) ==
    LET sorted == SortByCount(ConnectionCounts(ps, <<>>))
        newConnections ==
            SelectSeq(ps, LAMBDA p : p.frequency = 1 /\ t - p.lastAccessed < DayMs)
    IN  (IF Len(sorted) >= TopConnected
         THEN <<Insight("most_connected",
                        <<sorted[1][1], sorted[2][1], sorted[3][1]>>, 0)>>
         ELSE <<>>)
        \o (IF Len(newConnections) > 0
            THEN <<Insight("new_connections", <<>>, Len(newConnections))>>
            ELSE <<>>)

\* the activity logs of the pattern extraction: three notes, one of them
\* with the separator in its id, at minutes 1, 5 and 6
MaxLog == 3        \* activities per log passed to extractPatterns

EpNoteIds == {<<"a">>, <<"b">>, <<"b", ":", ":", "n">>}
EpTimestamps == {1, 5, 6}
EpActivities ==
    {Activity(noteId, timestamp) : noteId \in EpNoteIds, timestamp \in EpTimestamps}
EpLogs == SeqsUpTo(EpActivities, MaxLog)

\* an activity log, not yet consolidated
InitEp ==
    /\ inMemoryNodes = <<>>
    /\ inMemoryLinks = <<>>
    /\ now = 1
    /\ batch = <<>>
    /\ call = [op |-> "new", update |-> NoUpdate, args |-> <<>>,
               result |-> NoResult, again |-> FALSE, threw |-> FALSE]
    /\ linkTouched = <<>>
    /\ batchBefore = NoSnapshot
    /\ recording = FALSE
    /\ activities \in EpLogs
    /\ patterns = <<>>
    /\ rcUpdates = <<>>
    /\ rcInput = <<>>
    /\ rcResult = <<>>
    /\ inMemoryStore = <<>>
    /\ collection = "null"
    /\ initializing = FALSE
    /\ chroma = <<>>
    /\ state = DefaultState
    /\ atNode = "classification"
    /\ executed = <<>>

\* extractPatterns(activities), called once on the log
ExtractPatterns ==
    /\ call.op = "new"
    /\ patterns' = extractPatterns(activities)
    /\ call' = Call("extractPatterns", NoUpdate, <<>>, NoResult)
    /\ UNCHANGED <<graphVars, activities, rcVars, vsVars, wfVars>>

NextEp == ExtractPatterns

SpecEp == InitEp /\ [][NextEp]_vars

\* consolidate(log) on the store: the three steps in sequence.  The awaits
\* inside it are not points where this model lets another caller in.
Consolidate(log) ==
    LET ps == extractPatterns(log)
        after == strengthenLinks(inMemoryLinks, linkTouched, ps, 0, now)
    IN  /\ activities' = log
        /\ patterns' = ps
        /\ inMemoryLinks' = after.links
        /\ linkTouched' = after.touched
        /\ call' = Call("consolidate", NoUpdate, <<>>,
                        [patternsFound |-> Len(ps),
                         linksStrengthened |-> after.strengthened,
                         insightsGenerated |-> generateInsights(ps, now)])
        /\ UNCHANGED <<inMemoryNodes, now, batch, batchBefore, recording, rcVars,
                       vsVars, wfVars>>

MaxCnLog == 4      \* activities per log passed to consolidate

\* the activity logs of consolidation: notes a and b, within and outside
\* the window of one another
CnActivities == {Activity(<<"a">>, 1), Activity(<<"b">>, 1), Activity(<<"b">>, 6)}
CnLogs == SeqsUpTo(CnActivities, MaxCnLog)

\* links between a and b, either way, created at strength 0.95
CnLinkUpdates ==
    {KnowledgeGraphUpdate("link", "create", LinkData(e[1], e[2], <<95>>, FALSE)) :
        e \in {<< <<"a">>, <<"b">> >>, << <<"b">>, <<"a">> >>}}

\* single link updates, while the store has room
CnBatches ==
    IF Len(inMemoryLinks) < MaxLinks THEN {<<update>> : update \in CnLinkUpdates} ELSE {}

\* an empty store and the activity log the consolidation runs are given
InitCons ==
    /\ inMemoryNodes = <<>>
    /\ inMemoryLinks = <<>>
    /\ now = 1
    /\ batch = <<>>
    /\ call = [op |-> "new", update |-> NoUpdate, args |-> <<>>,
               result |-> NoResult, again |-> FALSE, threw |-> FALSE]
    /\ linkTouched = <<>>
    /\ batchBefore = NoSnapshot
    /\ recording = FALSE
    /\ activities \in CnLogs
    /\ patterns = <<>>
    /\ rcUpdates = <<>>
    /\ rcInput = <<>>
    /\ rcResult = <<>>
    /\ inMemoryStore = <<>>
    /\ collection = "null"
    /\ initializing = FALSE
    /\ chroma = <<>>
    /\ state = DefaultState
    /\ atNode = "classification"
    /\ executed = <<>>

\* the clock stands still here: the links are all made in one millisecond
NextCons ==
    \/ \E updates \in CnBatches : ApplyUpdates(updates)
    \/ Consolidate(activities)

SpecCons == InitCons /\ [][NextCons]_vars

----------------------------------------------------------------------------
(* Numbers of the VectorStore: IEEE 754 double precision                     *)
(*                                                                           *)
(* The embeddings and similarities are JavaScript numbers.  A number here is *)
(* zero or m * 2^e with m a significand of exactly SignificandBits bits; the *)
(* results of *, +, / and Math.sqrt are rounded to nearest, ties to even, as *)
(* the standard prescribes.  Only non-negative numbers occur (term counts    *)
(* and what is computed from them), and none near the ends of the exponent   *)
(* range.  A significand is a natural number held as its digits in base      *)
(* 2^15, least significant first, without leading zero digits (0 is <<>>).   *)

SignificandBits == 53
LimbBits == 15
LimbBase == 32768

RECURSIVE Pow2(_)
Pow2(k) == IF k = 0 THEN 1 ELSE 2 * Pow2(k - 1)

RECURSIVE NNorm(_)
NNorm(a) ==
    IF a = <<>> THEN <<>>
    ELSE IF a[Len(a)] = 0 THEN NNorm(SubSeq(a, 1, Len(a) - 1))
    ELSE a

RECURSIVE NAddC(_, _, _)
NAddC(a, b, c) ==
    IF a = <<>> /\ b = <<>> THEN (IF c = 0 THEN <<>> ELSE <<c>>)
    ELSE LET x == IF a = <<>> THEN 0 ELSE a[1]
             y == IF b = <<>> THEN 0 ELSE b[1]
             sum == x + y + c
         IN  <<sum % LimbBase>>
             \o NAddC(IF a = <<>> THEN <<>> ELSE Tail(a),
                      IF b = <<>> THEN <<>> ELSE Tail(b), sum \div LimbBase)

NAdd(a, b) == NAddC(a, b, 0)

RECURSIVE NSubB(_, _, _)
\* a - b - borrow, for a >= b + borrow, digit by digit
NSubB(a, b, borrow) ==
    IF a = <<>> THEN <<>>
    ELSE LET y == IF b = <<>> THEN 0 ELSE b[1]
             d == a[1] - y - borrow
         IN  <<IF d < 0 THEN d + LimbBase ELSE d>>
             \o NSubB(Tail(a), IF b = <<>> THEN <<>> ELSE Tail(b),
                      IF d < 0 THEN 1 ELSE 0)

NSub(a, b) == NNorm(NSubB(a, b, 0))

RECURSIVE NCmpTop(_, _, _)
NCmpTop(a, b, i) ==
    IF i = 0 THEN 0
    ELSE IF a[i] < b[i] THEN -1
    ELSE IF a[i] > b[i] THEN 1
    ELSE NCmpTop(a, b, i - 1)

\* -1, 0 or 1 as a < b, a = b or a > b
NCmp(a, b) ==
    IF Len(a) < Len(b) THEN -1
    ELSE IF Len(a) > Len(b) THEN 1
    ELSE NCmpTop(a, b, Len(a))

RECURSIVE NMulLimb(_, _, _)
NMulLimb(a, d, c) ==
    IF a = <<>> THEN (IF c = 0 THEN <<>> ELSE <<c>>)
    ELSE LET p == a[1] * d + c
         IN  <<p % LimbBase>> \o NMulLimb(Tail(a), d, p \div LimbBase)

RECURSIVE NMul(_, _)
NMul(a, b) ==
    IF a = <<>> \/ b = <<>> THEN <<>>
    ELSE LET rest == NMul(a, Tail(b))
         IN  NAdd(NNorm(NMulLimb(a, b[1], 0)),
                  IF rest = <<>> THEN <<>> ELSE <<0>> \o rest)

RECURSIVE NDivLimb(_, _, _)
\* the digits of (rem * LimbBase^Len(a) + a) \div d, for d < LimbBase
NDivLimb(a, d, rem) ==
    IF a = <<>> THEN <<>>
    ELSE LET cur == rem * LimbBase + a[Len(a)]
         IN  Append(NDivLimb(SubSeq(a, 1, Len(a) - 1), d, cur % d), cur \div d)

Zeros(k) == [i \in 1..k |-> 0]

\* a * 2^k and a \div 2^k
NShl(a, k) ==
    IF a = <<>> THEN <<>>
    ELSE Zeros(k \div LimbBits) \o NMulLimb(a, Pow2(k % LimbBits), 0)

NShr(a, k) ==
    IF Len(a) <= k \div LimbBits THEN <<>>
    ELSE NNorm(NDivLimb(SubSeq(a, (k \div LimbBits) + 1, Len(a)),
                        Pow2(k % LimbBits), 0))

RECURSIVE BitLen(_)
BitLen(n) == IF n = 0 THEN 0 ELSE 1 + BitLen(n \div 2)

NBitLen(a) ==
    IF a = <<>> THEN 0 ELSE LimbBits * (Len(a) - 1) + BitLen(a[Len(a)])

NIsOdd(a) == a # <<>> /\ a[1] % 2 = 1

RECURSIVE NFromInt(_)
NFromInt(n) ==
    IF n = 0 THEN <<>> ELSE <<n % LimbBase>> \o NFromInt(n \div LimbBase)

\* a number: zero, or m * 2^e
FZero == [m |-> <<>>, e |-> 0]

Number(m, e) == [m |-> m, e |-> e]

\* the number nearest to n * 2^e (n > 0), or to a value just above it when
\* sticky: ties go to the even significand
RoundToNearest(n, e, sticky) ==
    LET len == NBitLen(n)
        k == len - SignificandBits
        q == NShr(n, k)
        rem == NSub(n, NShl(q, k))
        half == NShl(<<1>>, k - 1)
        up == \/ NCmp(rem, half) > 0
              \/ NCmp(rem, half) = 0 /\ (sticky \/ NIsOdd(q))
        m == IF up THEN NAdd(q, <<1>>) ELSE q
    IN  IF k <= 0 THEN Number(NShl(n, 0 - k), e + k)
        ELSE IF NBitLen(m) > SignificandBits THEN Number(NShr(m, 1), e + k + 1)
        ELSE Number(m, e + k)

\* an integer below 2^53 is a number exactly
FromInt(n) == IF n = 0 THEN FZero ELSE RoundToNearest(NFromInt(n), 0, FALSE)

FOne == FromInt(1)

\* x * y
FMul(x, y) ==
    IF x.m = <<>> \/ y.m = <<>> THEN FZero
    ELSE RoundToNearest(NMul(x.m, y.m), x.e + y.e, FALSE)

\* x + y
FAdd(x, y) ==
    IF x.m = <<>> THEN y
    ELSE IF y.m = <<>> THEN x
    ELSE LET e == Min(x.e, y.e)
         IN  RoundToNearest(NAdd(NShl(x.m, x.e - e), NShl(y.m, y.e - e)), e, FALSE)

RECURSIVE Correct(_, _, _)
\* the digit of the quotient cur \div d from its estimate, which is never too
\* low: the digit and what is left of cur
Correct(cur, d, estimate) ==
    LET t == NNorm(NMulLimb(d, estimate, 0))
    IN  IF NCmp(t, cur) > 0 THEN Correct(cur, d, estimate - 1)
        ELSE [digit |-> estimate, rem |-> NSub(cur, t)]

RECURSIVE DivLimbs(_, _, _, _)
\* long division of n by d in base 2^15: q holds the digits found so far,
\* rem what is left of the digits of n read so far; the leading digit of d is
\* at least half the base
DivLimbs(n, d, rem, q) ==
    IF Len(q) = Len(n) THEN [q |-> NNorm(q), r |-> rem]
    ELSE LET cur == NNorm(<<n[Len(n) - Len(q)]>> \o rem)
             len == Len(d)
             estimate ==
                 IF Len(cur) < len THEN 0
                 ELSE IF Len(cur) = len THEN cur[len] \div d[len]
                 ELSE Min(LimbBase - 1,
                          (cur[len + 1] * LimbBase + cur[len]) \div d[len])
             step == Correct(cur, d, estimate)
         IN  DivLimbs(n, d, step.rem, <<step.digit>> \o q)

\* n \div d and what is left over, for d > 0 (both scaled so that the
\* leading digit of d is at least half the base; r is the scaled remainder)
NDivMod(n, d) ==
    LET shift == LimbBits * Len(d) - NBitLen(d)
    IN  DivLimbs(NShl(n, shift), NShl(d, shift), <<>>, <<>>)

\* x / y for y # 0: the quotient of the significands to three digits more
\* than a significand holds; what is left over makes it sticky
FDiv(x, y) ==
    IF x.m = <<>> THEN FZero
    ELSE LET qr == NDivMod(NShl(x.m, SignificandBits + 3), y.m)
         IN  RoundToNearest(qr.q, x.e - y.e - (SignificandBits + 3), qr.r # <<>>)

RECURSIVE IntSqrt(_, _)
\* the integer square root of a machine integer, from an estimate above it
IntSqrt(n, x) ==
    LET y == (x + n \div x) \div 2
    IN  IF y >= x THEN x ELSE IntSqrt(n, y)

RECURSIVE NewtonSqrt(_, _)
\* the integer square root of n, from an estimate x above it
NewtonSqrt(n, x) ==
    LET y == NShr(NAdd(x, NDivMod(n, x).q), 1)
    IN  IF NCmp(y, x) >= 0 THEN x ELSE NewtonSqrt(n, y)

\* the integer square root of n, a number of eight digits: the root of its
\* two leading digits gives the estimate
NSqrt(n) ==
    LET lead == n[8] * LimbBase + n[7]
    IN  NewtonSqrt(n, NShl(<<IntSqrt(lead, LimbBase) + 1>>, 3 * LimbBits))

\* Math.sqrt(x): the root of the significand scaled by an even power of two
\* to eight full digits
FSqrt(x) ==
    IF x.m = <<>> THEN FZero
    ELSE LET s == IF (x.e + 4096) % 2 = 0
                  THEN 8 * LimbBits - SignificandBits - 1
                  ELSE 8 * LimbBits - SignificandBits
             n == NShl(x.m, s)
             root == NSqrt(n)
         IN  RoundToNearest(root, (x.e - s) \div 2, NMul(root, root) # n)

\* x < y
FLess(x, y) ==
    IF y.m = <<>> THEN FALSE
    ELSE IF x.m = <<>> THEN TRUE
    ELSE x.e < y.e \/ (x.e = y.e /\ NCmp(x.m, y.m) < 0)

----------------------------------------------------------------------------
(* VectorStore: the in-memory index *)

\* the characters \s matches, among those of the texts here
IsSpace(c) == c \in {" ", "\t", "\n"}

RECURSIVE SkipSpaces(_)
SkipSpaces(text) ==
    IF text # <<>> /\ IsSpace(text[1]) THEN SkipSpaces(Tail(text)) ELSE text

RECURSIVE SplitWhitespace(_, _)
\* text.split(/\s+/): the pieces between the runs of whitespace; a text that
\* starts or ends with whitespace has an empty first or last piece, and the
\* empty text has one empty piece
SplitWhitespace(text, piece) ==
    IF text = <<>> THEN <<piece>>
    ELSE IF IsSpace(text[1])
         THEN <<piece>> \o SplitWhitespace(SkipSpaces(text), <<>>)
         ELSE SplitWhitespace(Tail(text), Append(piece, text[1]))

RECURSIVE VocabOf(_, _)
\* vocab: the Map word -> index as its keys in insertion order (the index of
\* a word is its position, counted from 0)
VocabOf(words, vocab) ==
    IF words = <<>> THEN vocab
    ELSE VocabOf(Tail(words),
                 IF \E k \in 1..Len(vocab) : vocab[k] = words[1]
                 THEN vocab
                 ELSE Append(vocab, words[1]))

VocabGet(vocab, word) == (CHOOSE k \in 1..Len(vocab) : vocab[k] = word) - 1

EmbeddingDims == 100

RECURSIVE CountWords(_, _, _)
\* the second forEach: embedding[idx] += 1 for every word of index below 100
CountWords(words, vocab, embedding) ==
    IF words = <<>> THEN embedding
    ELSE LET idx == VocabGet(vocab, words[1])
         IN  CountWords(Tail(words), vocab,
                        IF idx < EmbeddingDims
                        THEN [embedding EXCEPT ![idx + 1] = FAdd(@, FOne)]
                        ELSE embedding)

RECURSIVE SumOfSquares(_, _)
\* embedding.reduce((sum, val) => sum + val * val, sum)
SumOfSquares(embedding, sum) ==
    IF embedding = <<>> THEN sum
    ELSE SumOfSquares(Tail(embedding), FAdd(sum, FMul(embedding[1], embedding[1])))

RECURSIVE StoredWords(_, _)
\* the words of the stored documents, in first-seen order
StoredWords(store, vocab) ==
    IF store = <<>> THEN vocab
    ELSE StoredWords(Tail(store),
                     VocabOf(SplitWhitespace(toLowerCase(store[1].content), <<>>), vocab))

\* a vocabulary kept by the store: the words of the documents stored so far
\* are numbered before those of the text
generateSimpleEmbeddingSharedVocab(text) ==
    LET words == SplitWhitespace(toLowerCase(text), <<>>)
        vocab == VocabOf(words, StoredWords(inMemoryStore, <<>>))
        embedding == CountWords(words, vocab,
                                [k \in 1..Min(Len(vocab), EmbeddingDims) |-> FZero])
        magnitude == FSqrt(SumOfSquares(embedding, FZero))
    IN  IF FLess(FZero, magnitude)
        THEN [k \in 1..Len(embedding) |-> FDiv(embedding[k], magnitude)]
        ELSE embedding

generateSimpleEmbedding(text) ==
    LET words == SplitWhitespace(toLowerCase(text), <<>>)
        vocab == VocabOf(words, <<>>)
        embedding == CountWords(words, vocab,
                                [k \in 1..Min(Len(vocab), EmbeddingDims) |-> FZero])
        magnitude == FSqrt(SumOfSquares(embedding, FZero))
    IN  IF FLess(FZero, magnitude)
        THEN [k \in 1..Len(embedding) |-> FDiv(embedding[k], magnitude)]
        ELSE embedding

RECURSIVE CosineLoop(_, _, _, _)
\* the loop of cosineSimilarity from index i on (counted from 1)
CosineLoop(a, b, i, acc) ==
    IF i > Len(a) THEN acc
    ELSE CosineLoop(a, b, i + 1,
                    [dotProduct |-> FAdd(acc.dotProduct, FMul(a[i], b[i])),
                     magnitudeA |-> FAdd(acc.magnitudeA, FMul(a[i], a[i])),
                     magnitudeB |-> FAdd(acc.magnitudeB, FMul(b[i], b[i]))])

\* what a computation on undefined gives: not a number
FNaN == [m |-> <<>>, e |-> 1]

\* the function without its test of the lengths: the loop runs over the
\* indices of a, and reads undefined where b is shorter
cosineSimilarityNoLengthTest(a, b) ==
    IF Len(a) > Len(b) THEN FNaN
    ELSE LET acc == CosineLoop(a, b, 1, [dotProduct |-> FZero, magnitudeA |-> FZero,
                                         magnitudeB |-> FZero])
             magnitudeA == FSqrt(acc.magnitudeA)
             magnitudeB == FSqrt(acc.magnitudeB)
         IN  IF magnitudeA = FZero \/ magnitudeB = FZero THEN FZero
             ELSE FDiv(acc.dotProduct, FMul(magnitudeA, magnitudeB))

cosineSimilarity(a, b) ==
    IF Len(a) # Len(b) THEN FZero
    ELSE LET acc == CosineLoop(a, b, 1, [dotProduct |-> FZero, magnitudeA |-> FZero,
                                         magnitudeB |-> FZero])
             magnitudeA == FSqrt(acc.magnitudeA)
             magnitudeB == FSqrt(acc.magnitudeB)
         IN  IF magnitudeA = FZero \/ magnitudeB = FZero THEN FZero
             ELSE FDiv(acc.dotProduct, FMul(magnitudeA, magnitudeB))

VectorDocument(id, content) == [id |-> id, content |-> content, metadata |-> <<>>]

\* addDocument(doc) in the in-memory index: push({...doc, embedding}).  The
\* push is the one point at which the call acts on the index.
addDocument(store, doc) ==
    Append(store, [id |-> doc.id, content |-> doc.content, metadata |-> doc.metadata,
                   embedding |-> generateSimpleEmbedding(doc.content)])

RECURSIVE InsertBySimilarity(_, _)
InsertBySimilarity(sorted, entry) ==
    IF sorted = <<>> THEN <<entry>>
    ELSE IF FLess(sorted[1].similarity, entry.similarity) THEN <<entry>> \o sorted
    ELSE <<sorted[1]>> \o InsertBySimilarity(Tail(sorted), entry)

RECURSIVE SortBySimilarity(_)
\* scored.sort((a, b) => b.similarity - a.similarity): highest first, stable
SortBySimilarity(scored) ==
    IF scored = <<>> THEN <<>>
    ELSE InsertBySimilarity(SortBySimilarity(SubSeq(scored, 1, Len(scored) - 1)),
                            scored[Len(scored)])

\* arr.slice(0, limit) for an integer limit: a negative limit counts from
\* the end
Slice(arr, limit) ==
    IF limit >= 0 THEN SubSeq(arr, 1, Min(limit, Len(arr)))
    ELSE SubSeq(arr, 1, Len(arr) + limit)

\* the same, whatever the limit
SearchInMemoryUnlimited(store, text, limit) ==
    LET queryEmbedding == generateSimpleEmbedding(text)
        scored == [i \in 1..Len(store) |->
                      [id |-> store[i].id, content |-> store[i].content,
                       metadata |-> store[i].metadata,
                       similarity |-> cosineSimilarity(queryEmbedding,
                                                       store[i].embedding)]]
    IN  SortBySimilarity(scored)

\* search(text, limit) on the in-memory index
SearchInMemory(store, text, limit) ==
    LET queryEmbedding == generateSimpleEmbedding(text)
        scored == [i \in 1..Len(store) |->
                      [id |-> store[i].id, content |-> store[i].content,
                       metadata |-> store[i].metadata,
                       similarity |-> cosineSimilarity(queryEmbedding,
                                                       store[i].embedding)]]
    IN  Slice(SortBySimilarity(scored), limit)

\* deleteDocument(id): the first document of that id, if any, is spliced out
deleteDocument(store, id) ==
    IF \E i \in 1..Len(store) : store[i].id = id
    THEN LET index == CHOOSE i \in 1..Len(store) :
                         /\ store[i].id = id
                         /\ \A j \in 1..(i - 1) : store[j].id # id
         IN  RemoveAt(store, index)
    ELSE store

\* The backend, as the calls made to it describe it: collection.add stores
\* a document under its id, collection.delete({ids: [id]}) removes what is
\* stored under the id, and collection.query answers with at most nResults
\* of the stored documents, in an order and with distances of its own.
collectionAdd(docs, doc) ==
    Append(docs, [id |-> doc.id, content |-> doc.content, metadata |-> doc.metadata])

collectionDelete(docs, id) == SelectSeq(docs, LAMBDA d : d.id # id)

\* the answers search may build from the backend's: the similarity of a
\* result is 1 - distance, a number of the backend's, not held here
collectionQuery(docs, limit) ==
    {[k \in 1..Len(f) |-> docs[f[k]]] :
        f \in {g \in [1..Min(limit, Len(docs)) -> 1..Len(docs)] :
                  \A k \in DOMAIN g : \A l \in DOMAIN g : g[k] = g[l] => k = l}}

MaxDocs == 2       \* documents the index may hold

VsDocs ==
    {VectorDocument(<<"p">>, <<"b">>),
     VectorDocument(<<"q">>, <<"a", " ", "b">>),
     VectorDocument(<<"p">>, <<"A", " ", "a", " ", "b">>),
     VectorDocument(<<"q">>, <<"b">>)}
VsQueries == {<<"a", " ", "b">>, <<"B">>}
VsLimits == {0, 1, MaxDocs + 1}

\* addDocument(doc): to the backend's collection when there is one, to the
\* in-memory index otherwise
AddDocument(doc) ==
    /\ Len(inMemoryStore) + Len(chroma) < MaxDocs
    /\ IF collection = "open"
       THEN /\ \A i \in 1..Len(chroma) : chroma[i].id # doc.id
            /\ chroma' = collectionAdd(chroma, doc)
            /\ UNCHANGED inMemoryStore
       ELSE /\ inMemoryStore' = addDocument(inMemoryStore, doc)
            /\ UNCHANGED chroma
    /\ call' = Call("addDocument", NoUpdate, <<doc>>, NoResult)
    /\ UNCHANGED <<graphVars, rcVars, cnVars, collection, initializing, wfVars>>

\* search(text, limit): the backend's answer when there is a collection, the
\* in-memory search otherwise
Search(text, limit) ==
    /\ IF collection = "open"
       THEN \E results \in collectionQuery(chroma, limit) :
               call' = Call("search", NoUpdate, <<text, limit>>, results)
       ELSE call' = Call("search", NoUpdate, <<text, limit>>,
                         SearchInMemory(inMemoryStore, text, limit))
    /\ UNCHANGED <<graphVars, rcVars, cnVars, vsVars, wfVars>>

DeleteDocument(id) ==
    /\ IF collection = "open"
       THEN /\ chroma' = collectionDelete(chroma, id)
            /\ UNCHANGED inMemoryStore
       ELSE /\ inMemoryStore' = deleteDocument(inMemoryStore, id)
            /\ UNCHANGED chroma
    /\ call' = Call("deleteDocument", NoUpdate, <<id>>, NoResult)
    /\ UNCHANGED <<graphVars, rcVars, cnVars, collection, initializing, wfVars>>

NextVs ==
    \/ \E doc \in VsDocs : AddDocument(doc)
    \/ \E text \in VsQueries : \E limit \in VsLimits : Search(text, limit)
    \/ \E id \in {<<"p">>, <<"q">>} : DeleteDocument(id)

SpecVs == Init /\ [][NextVs]_vars

RECURSIVE addDocuments(_, _)
\* addDocuments(docs): addDocument on each in turn
addDocuments(store, docs) ==
    IF docs = <<>> THEN store
    ELSE addDocuments(addDocument(store, docs[1]), Tail(docs))

\* updateDocument(doc): deleteDocument(doc.id), then addDocument(doc)
updateDocument(store, doc) == addDocument(deleteDocument(store, doc.id), doc)

\* addDocuments and updateDocument on a store without a backend (nothing
\* is configured, or initialize() has given up)
AddDocuments(docs) ==
    /\ collection = "null" /\ ~initializing
    /\ Len(inMemoryStore) + Len(docs) <= MaxDocs
    /\ inMemoryStore' = addDocuments(inMemoryStore, docs)
    /\ call' = Call("addDocuments", NoUpdate, <<docs>>, NoResult)
    /\ UNCHANGED <<graphVars, rcVars, cnVars, collection, initializing, chroma, wfVars>>

UpdateDocument(doc) ==
    /\ collection = "null" /\ ~initializing
    /\ Len(updateDocument(inMemoryStore, doc)) <= MaxDocs
    /\ inMemoryStore' = updateDocument(inMemoryStore, doc)
    /\ call' = Call("updateDocument", NoUpdate, <<doc>>, NoResult)
    /\ UNCHANGED <<graphVars, rcVars, cnVars, collection, initializing, chroma, wfVars>>

\* the index under every operation that writes to it
NextDocs ==
    \/ \E doc \in VsDocs : AddDocument(doc)
    \/ \E docs \in SeqsUpTo(VsDocs, MaxDocs) : AddDocuments(docs)
    \/ \E doc \in VsDocs : UpdateDocument(doc)
    \/ \E id \in {<<"p">>, <<"q">>} : DeleteDocument(id)
    \/ \E text \in VsQueries : Search(text, MaxDocs)

SpecDocs == Init /\ [][NextDocs]_vars

\* documents and queries with and without a word in common
SimDocs ==
    {VectorDocument(<<"p">>, <<"a">>),
     VectorDocument(<<"q">>, <<"b">>),
     VectorDocument(<<"r">>, <<"a", " ", "b">>),
     VectorDocument(<<"s">>, <<"c", " ", "d">>)}
SimQueries == {<<"b">>, <<"a", " ", "b">>}

\* the index filled and searched
NextSim ==
    \/ \E doc \in SimDocs : AddDocument(doc)
    \/ \E text \in SimQueries : \E limit \in {0, 1, MaxDocs} : Search(text, limit)

SpecSim == Init /\ [][NextSim]_vars

\* The store whose backend is configured: the constructor has started
\* initialize(), which awaits the backend's answer while the caller goes on.
InitBackend ==
    /\ inMemoryNodes = <<>>
    /\ inMemoryLinks = <<>>
    /\ now = 1
    /\ batch = <<>>
    /\ call = [op |-> "new", update |-> NoUpdate, args |-> <<>>,
               result |-> NoResult, again |-> FALSE, threw |-> FALSE]
    /\ linkTouched = <<>>
    /\ batchBefore = NoSnapshot
    /\ recording = FALSE
    /\ activities = <<>>
    /\ patterns = <<>>
    /\ rcUpdates = <<>>
    /\ rcInput = <<>>
    /\ rcResult = <<>>
    /\ inMemoryStore = <<>>
    /\ collection = "null"
    /\ initializing = TRUE
    /\ chroma = <<>>
    /\ state = DefaultState
    /\ atNode = "classification"
    /\ executed = <<>>

\* getOrCreateCollection answers: initialize() sets the collection
InitializeConnects ==
    /\ initializing
    /\ initializing' = FALSE
    /\ collection' = "open"
    /\ call' = Call("initialize", NoUpdate, <<>>, NoResult)
    /\ UNCHANGED <<graphVars, rcVars, cnVars, inMemoryStore, chroma, wfVars>>

\* getOrCreateCollection fails: the catch block logs, the collection stays
\* null and the in-memory index is used from then on
InitializeFails ==
    /\ initializing
    /\ initializing' = FALSE
    /\ call' = Call("initialize", NoUpdate, <<>>, NoResult)
    /\ UNCHANGED <<graphVars, rcVars, cnVars, inMemoryStore, collection, chroma, wfVars>>

\* documents of distinct ids
BkDocs ==
    {VectorDocument(<<"p">>, <<"b">>), VectorDocument(<<"q">>, <<"a", " ", "b">>)}

NextBackend ==
    \/ InitializeConnects
    \/ InitializeFails
    \/ \E doc \in BkDocs :
          /\ \A i \in 1..Len(inMemoryStore) : inMemoryStore[i].id # doc.id
          /\ AddDocument(doc)
    \/ \E text \in VsQueries : \E limit \in {0, 1, MaxDocs} : Search(text, limit)

SpecBackend == InitBackend /\ [][NextBackend]_vars

\* cosineSimilarity on its own: the two vectors are drawn first
MaxDim == 2        \* components per vector

CosComponents == {FZero, FOne, FromInt(2)}
CosVectors == {<<>>} \cup SeqsUpTo(CosComponents, MaxDim)

InitCos ==
    /\ inMemoryNodes = <<>>
    /\ inMemoryLinks = <<>>
    /\ now = 1
    /\ batch = <<>>
    /\ \E a \in CosVectors : \E b \in CosVectors :
          call = [op |-> "new", update |-> NoUpdate, args |-> <<a, b>>,
                  result |-> NoResult, again |-> FALSE, threw |-> FALSE]
    /\ linkTouched = <<>>
    /\ batchBefore = NoSnapshot
    /\ recording = FALSE
    /\ activities = <<>>
    /\ patterns = <<>>
    /\ rcUpdates = <<>>
    /\ rcInput = <<>>
    /\ rcResult = <<>>
    /\ inMemoryStore = <<>>
    /\ collection = "null"
    /\ initializing = FALSE
    /\ chroma = <<>>
    /\ state = DefaultState
    /\ atNode = "classification"
    /\ executed = <<>>

\* cosineSimilarity(a, b), called once on the pair
CosineSimilarity ==
    /\ call.op = "new"
    /\ call' = Call("cosineSimilarity", NoUpdate, call.args,
                    cosineSimilarity(call.args[1], call.args[2]))
    /\ UNCHANGED <<graphVars, rcVars, cnVars, vsVars, wfVars>>

NextCos == CosineSimilarity

SpecCos == InitCos /\ [][NextCos]_vars

----------------------------------------------------------------------------
(* generateInsights on its own: the patterns and the clock reading are drawn *)
(* first.  The patterns are such as extractPatterns returns: one per pair,   *)
(* the two notes in sorted order (a note read twice within the window pairs  *)
(* with itself), seen once or three times, last accessed at the epoch or a   *)
(* millisecond after it; the clock reads 24 hours after the epoch or a       *)
(* millisecond more.                                                         *)

MaxPatterns == 3   \* patterns per call of generateInsights

GiPairs ==
    {<< <<"a">>, <<"b">> >>, << <<"a">>, <<"c">> >>, << <<"c">>, <<"d">> >>,
     << <<"d">>, <<"d">> >>}

GiPatterns ==
    {[sourceNote |-> pair[1], targetNote |-> pair[2], frequency |-> frequency,
      lastAccessed |-> lastAccessed] :
        pair \in GiPairs, frequency \in {1, 3}, lastAccessed \in {0, 1}}

GiInputs ==
    {<<>>} \cup
    {ps \in SeqsUpTo(GiPatterns, MaxPatterns) :
        \A i \in 1..Len(ps) : \A j \in 1..Len(ps) :
            (ps[i].sourceNote = ps[j].sourceNote /\ ps[i].targetNote = ps[j].targetNote)
                => i = j}

InitGi ==
    /\ inMemoryNodes = <<>>
    /\ inMemoryLinks = <<>>
    /\ now \in {DayMs, DayMs + 1}
    /\ batch = <<>>
    /\ call = [op |-> "new", update |-> NoUpdate, args |-> <<>>,
               result |-> NoResult, again |-> FALSE, threw |-> FALSE]
    /\ linkTouched = <<>>
    /\ batchBefore = NoSnapshot
    /\ recording = FALSE
    /\ activities = <<>>
    /\ patterns \in GiInputs
    /\ rcUpdates = <<>>
    /\ rcInput = <<>>
    /\ rcResult = <<>>
    /\ inMemoryStore = <<>>
    /\ collection = "null"
    /\ initializing = FALSE
    /\ chroma = <<>>
    /\ state = DefaultState
    /\ atNode = "classification"
    /\ executed = <<>>

\* generateInsights(patterns), called once
GenerateInsights ==
    /\ call.op = "new"
    /\ call' = Call("generateInsights", NoUpdate, <<>>, generateInsights(patterns, now))
    /\ UNCHANGED <<graphVars, rcVars, cnVars, vsVars, wfVars>>

NextGi == GenerateInsights

SpecGi == InitGi /\ [][NextGi]_vars

----------------------------------------------------------------------------
(* The store under every operation that writes to it or reads it: batches   *)
(* of updates of every type, the topic query, strengthening, removal and    *)
(* consolidation of a log that co-accesses the two ends of the link.        *)

NdLinkUpdate ==
    KnowledgeGraphUpdate("link", "create", LinkData(NoteId(1), <<"x">>, <<95>>, FALSE))

NdUpdates ==
    NoteUpdates \cup OtherUpdates \cup {NdLinkUpdate}
    \cup {KnowledgeGraphUpdate("tag", "create", TagData(<<Tag_a>>))}

\* every update adds one node or link at most
NdBatches ==
    {updates \in SeqsUpTo(NdUpdates, MaxBatch) :
        Len(updates) <= MaxStore - Len(inMemoryNodes) - Len(inMemoryLinks)}

\* the two ends of the link, each read twice within the same minute
NdLogs ==
    {<<Activity(NoteId(1), 1), Activity(<<"x">>, 1),
       Activity(NoteId(1), 1), Activity(<<"x">>, 1)>>}

InitNodes ==
    /\ inMemoryNodes = <<>>
    /\ inMemoryLinks = <<>>
    /\ now = 1
    /\ batch = <<>>
    /\ call = [op |-> "new", update |-> NoUpdate, args |-> <<>>,
               result |-> NoResult, again |-> FALSE, threw |-> FALSE]
    /\ linkTouched = <<>>
    /\ batchBefore = NoSnapshot
    /\ recording = FALSE
    /\ activities \in NdLogs
    /\ patterns = <<>>
    /\ rcUpdates = <<>>
    /\ rcInput = <<>>
    /\ rcResult = <<>>
    /\ inMemoryStore = <<>>
    /\ collection = "null"
    /\ initializing = FALSE
    /\ chroma = <<>>
    /\ state = DefaultState
    /\ atNode = "classification"
    /\ executed = <<>>

NextNodes ==
    \/ Tick
    \/ \E updates \in NdBatches : ApplyUpdates(updates)
    \/ ApplyNext
    \/ Query(<<"a">>)
    \/ IncrementLinkWeight(NoteId(1), <<"x">>)
    \/ \E linkId \in LinkIds : RemoveLink(linkId)
    \/ Consolidate(activities)

SpecNodes == InitNodes /\ [][NextNodes]_vars

----------------------------------------------------------------------------
(* Batches whose updates carry every action *)

\* KnowledgeGraphUpdate.action
UpdateActions == {"create", "update", "delete", "merge"}

AcUpdates ==
    {KnowledgeGraphUpdate("note", action, NoteData(<<"a">>)) : action \in UpdateActions}
    \cup {KnowledgeGraphUpdate("tag", action, TagData(<<Tag_a>>)) : action \in UpdateActions}
    \cup {KnowledgeGraphUpdate("link", action, LinkData(<<"a">>, <<"b">>, <<95>>, FALSE)) :
             action \in UpdateActions}
    \cup {KnowledgeGraphUpdate("meta_pattern", action, OpaqueData(<<"b">>)) :
             action \in {"create", "delete"}}
    \cup {KnowledgeGraphUpdate("tag", action, EmptyData) : action \in {"create", "delete"}}

\* every update adds one node or link at most
AcBatches ==
    {updates \in SeqsUpTo(AcUpdates, MaxBatch) :
        Len(updates) <= MaxStore - Len(inMemoryNodes) - Len(inMemoryLinks)}

NextActions ==
    \/ Tick
    \/ \E updates \in AcBatches : ApplyUpdates(updates)
    \/ ApplyNext

SpecActions == Init /\ [][NextActions]_vars

----------------------------------------------------------------------------
(* Link updates over the range of strengths: none given, 0, 0.5 and 1.0 *)

StStrengths == {<<>>, <<0>>, <<50>>, <<100>>}

StUpdates ==
    {KnowledgeGraphUpdate("link", "create", LinkData(<<"a">>, <<"b">>, s, FALSE)) :
        s \in StStrengths}

\* the batches the store has room for
StBatches ==
    {updates \in SeqsUpTo(StUpdates, MaxBatch) :
        Len(updates) <= MaxLinks - Len(inMemoryLinks)}

\* the thresholds queryWeakLinks is called with
StThresholds == {1, 50, 51, 100, 101}

NextStrength ==
    \/ Tick
    \/ \E updates \in StBatches : ApplyUpdates(updates)
    \/ ApplyNext
    \/ \E threshold \in StThresholds :
          QueryWeakLinks([days |-> 0, threshold |-> threshold])

SpecStrength == Init /\ [][NextStrength]_vars

----------------------------------------------------------------------------
(* The workflow graph of the orchestrator                                    *)
(*                                                                           *)
(* buildSodianGraph wires seven nodes with conditional edges; a run starts   *)
(* at classification and executes one node at a time, each node's return     *)
(* value being merged into the state before the edge leaving the node is     *)
(* evaluated.  Every node but response calls the language model inside a     *)
(* try block: it returns either its result or, from the catch block, an      *)
(* error message (never an empty one here) and no other channel the routing  *)
(* reads.  The channels current_agent, processing_stage and error keep the   *)
(* last value written (reducer (_, next) => next).                           *)

ClassificationTypes ==
    {"note", "idea", "solution", "learning", "task", "reference", "question"}
Urgencies == {"high", "medium", "low"}

ContentClassification(type, urgency) == [type |-> type, urgency |-> urgency]

routeToSpecialist(st) ==
    IF st.error # "null" THEN "response"
    ELSE IF st.content_classification = NoClassification THEN "response"
    ELSE CASE st.content_classification.type = "learning" -> "learning_material"
           [] st.content_classification.type \in {"solution", "idea"} ->
                 "pattern_recognition"
           [] OTHER -> "curation"

\* the route with no test of the error
routeAfterCurationOnward(st) == "graph_synthesis"

routeAfterCuration(st) ==
    IF st.error # "null" THEN "response" ELSE "graph_synthesis"

\* the route leading back to curation
routeAfterSynthesisBack(st) ==
    IF st.error # "null" THEN "response" ELSE "curation"

routeAfterSynthesis(st) ==
    IF st.error # "null" THEN "response" ELSE "auto_tagging"

routeAfterTagging(st) ==
    IF st.error # "null" THEN "response"
    ELSE IF /\ st.content_classification # NoClassification
            /\ st.content_classification.type \in {"solution", "idea"}
         THEN "pattern_recognition"
         ELSE "response"

routeAfterPattern(st) == "response"

routeAfterLearning(st) ==
    IF st.error # "null" THEN "response" ELSE "graph_synthesis"

\* the edge buildSodianGraph gives a node: where the run goes after it
EdgeFrom(node, st) ==
    CASE node = "classification" -> routeToSpecialist(st)
      [] node = "curation" -> routeAfterCuration(st)
      [] node = "graph_synthesis" -> routeAfterSynthesis(st)
      [] node = "auto_tagging" -> routeAfterTagging(st)
      [] node = "pattern_recognition" -> routeAfterPattern(st)
      [] node = "learning_material" -> routeAfterLearning(st)
      [] node = "response" -> "END"

\* the processing_stage a specialist writes when it succeeds
StageOf(node) ==
    CASE node = "curation" -> "curation"
      [] node = "graph_synthesis" -> "synthesis"
      [] node = "auto_tagging" -> "tagging"
      [] node = "learning_material" -> "curation"
      [] node = "pattern_recognition" -> "pattern_detection"

\* the message of the catch block of a node when the error has none
FailureOf(node) ==
    CASE node = "classification" -> "Classification failed"
      [] node = "curation" -> "Curation failed"
      [] node = "graph_synthesis" -> "Synthesis failed"
      [] node = "auto_tagging" -> "Tagging failed"
      [] node = "learning_material" -> "Learning analysis failed"
      [] node = "pattern_recognition" -> "Pattern recognition failed"

Specialists ==
    {"curation", "graph_synthesis", "auto_tagging", "learning_material",
     "pattern_recognition"}

\* the graph executes a node: the state after the node's return value is
\* merged, and the node its edge leads to
Execute(node, after) ==
    /\ atNode = node
    /\ state' = after
    /\ atNode' = EdgeFrom(node, after)
    /\ executed' = Append(executed, node)
    /\ call' = Call(node, NoUpdate, <<>>, NoResult)
    /\ UNCHANGED <<graphVars, rcVars, cnVars, vsVars>>

\* classificationNode: the model's classification, or the error of the call
ClassificationNode ==
    \/ \E type \in ClassificationTypes : \E urgency \in Urgencies :
          Execute("classification",
                  [state EXCEPT !.content_classification =
                                    ContentClassification(type, urgency),
                                !.processing_stage = "curation"])
    \/ Execute("classification",
               [state EXCEPT !.error = FailureOf("classification")])

\* curationNode, graphSynthesisNode, autoTaggingNode, learningMaterialNode,
\* patternRecognitionNode: the return of the try block or of the catch block
SpecialistNode(node) ==
    \/ Execute(node, [state EXCEPT !.current_agent = node,
                                   !.processing_stage = StageOf(node)])
    \/ Execute(node, [state EXCEPT !.error = FailureOf(node)])

ResponseNode ==
    Execute("response", [state EXCEPT !.processing_stage = "complete"])

NextWf ==
    \/ ClassificationNode
    \/ \E node \in Specialists : SpecialistNode(node)
    \/ ResponseNode

\* sodianApp.invoke on the default state
SpecWf == Init /\ [][NextWf]_vars

\* the graph runs the next node as long as there is one
SpecWfRun == SpecWf /\ WF_vars(NextWf)

\* ExecutiveManager.selectSpecialists(state)
selectSpecialists(st) ==
    IF st.content_classification = NoClassification
    THEN [selectedAgents |-> <<"curation">>, priority |-> "normal",
          parallelizable |-> FALSE]
    ELSE [selectedAgents |->
              <<"curation", "graph_synthesis", "auto_tagging">>
              \o (CASE st.content_classification.type = "learning" ->
                          <<"learning_material">>
                    [] st.content_classification.type \in {"solution", "idea"} ->
                          <<"pattern_recognition">>
                    [] OTHER -> <<>>),
          priority |-> st.content_classification.urgency,
          parallelizable |-> FALSE]

----------------------------------------------------------------------------
(* Steps and helpers the properties speak about *)

\* the step handles one update of the given type inside applyUpdates
\* (every action but Tick sets call, and Tick alone moves the clock)
ApplyStep(type) ==
    /\ now' = now
    /\ call'.op = "applyUpdates"
    /\ call'.update.type = type

IncrementStep == now' = now /\ call'.op = "incrementLinkWeight"

QueryStep == now' = now /\ call'.op = "query"

\* two characters that are the same letter, whatever their case
SameLetter(c, d) ==
    \/ c = d
    \/ <<c, d>> \in {<<"a", "A">>, <<"A", "a">>, <<"b", "B">>, <<"B", "b">>}

\* t occurs in s as a run of consecutive characters, letter case ignored
OccursIgnoringCase(t, s) ==
    \E off \in 0..(Len(s) - Len(t)) :
        \A k \in 1..Len(t) : SameLetter(t[k], s[off + k])

\* the value a node's properties hold under a key (<<>> if none)
PropertyOf(node, key) ==
    IF \E k \in 1..Len(node.properties) : node.properties[k][1] = key
    THEN node.properties[CHOOSE k \in 1..Len(node.properties) :
                            node.properties[k][1] = key][2]
    ELSE <<>>

TagNodesNamed(nodes, name) ==
    {i \in 1..Len(nodes) : nodes[i].type = "Tag" /\ PropertyOf(nodes[i], K_name) = name}

----------------------------------------------------------------------------
(* Properties of the graph store, under Spec *)

\* C1: in every reachable state of the in-memory store every stored link has
\* 0 <= strength <= 1 (0..100 in hundredths), whatever strength a link update
\* carried.
C1_StrengthInUnitInterval ==
    \A i \in 1..Len(inMemoryLinks) :
        0 <= inMemoryLinks[i].strength /\ inMemoryLinks[i].strength <= StrengthCap

\* C2: every incrementLinkWeight call leaves the link it finds with a strength
\* of at most 1.0, and lowers the strength of no link.
C2_IncrementClampedAndMonotone ==
    [][IncrementStep =>
          /\ Len(inMemoryLinks') = Len(inMemoryLinks)
          /\ \A i \in 1..Len(inMemoryLinks) :
                /\ inMemoryLinks'[i].strength >= inMemoryLinks[i].strength
                /\ i = FindLink(inMemoryLinks, call'.args[1], call'.args[2])
                      => inMemoryLinks'[i].strength <= StrengthCap]_vars

\* C3: every note update applied by applyUpdates adds exactly one node to the
\* count getStats reports and leaves every node already stored as it was,
\* whatever the clock reads (equal consecutive readings included).
C3_NoteUpdateAddsFreshNode ==
    [][ApplyStep("note") =>
          /\ getStats(inMemoryNodes', inMemoryLinks').nodes
                = getStats(inMemoryNodes, inMemoryLinks).nodes + 1
          /\ \A i \in 1..Len(inMemoryNodes) : inMemoryNodes'[i] = inMemoryNodes[i]]_vars

\* C4: a tag update leaves every node already stored unchanged and, once
\* applied, the store holds exactly one Tag node per distinct tag string of
\* data.tags; applying the same tag update a second time (next in the same
\* batch or in the next batch, whatever the clock reads by then) leaves the
\* store as the first application left it.
C4_TagUpdateIdempotent ==
    [][ApplyStep("tag") =>
          /\ \A i \in 1..Len(inMemoryNodes) : inMemoryNodes'[i] = inMemoryNodes[i]
          /\ \A g \in Range(call'.update.data.tags) :
                Cardinality(TagNodesNamed(inMemoryNodes', g)) = 1
          /\ inMemoryLinks' = inMemoryLinks
          /\ call'.again => inMemoryNodes' = inMemoryNodes]_vars

\* C4 witness: the same tag update has just been applied a second time, at a
\* later clock reading than the one its Tag nodes were created at.
C4_Witness ==
    /\ call.op = "applyUpdates" /\ call.again
    /\ call.update.type = "tag"
    /\ Cardinality(Range(call.update.data.tags)) > 1
    /\ \A i \in 1..Len(inMemoryNodes) : inMemoryNodes[i].createdAt < now

\* C5: two Tag nodes never differ only in the letter case of their tag.
C5_TagsKeyedLowercase ==
    \A i, j \in 1..Len(inMemoryNodes) :
        (/\ inMemoryNodes[i].type = "Tag"
         /\ inMemoryNodes[j].type = "Tag"
         /\ toLowerCase(PropertyOf(inMemoryNodes[i], K_name))
               = toLowerCase(PropertyOf(inMemoryNodes[j], K_name)))
        => i = j

\* C9: when the store holds a single Note node and no link, a query whose
\* topic occurs in the note's content (letter case ignored) returns exactly
\* that node, with its content among its properties.
C9_QueryFindsTheNote ==
    (/\ call.op = "query"
     /\ Len(inMemoryNodes) = 1
     /\ inMemoryNodes[1].type = "Note"
     /\ inMemoryLinks = <<>>
     /\ OccursIgnoringCase(call.args[1], PropertyOf(inMemoryNodes[1], K_content)))
    => /\ Len(call.result.nodes) = 1
       /\ PropertyOf(call.result.nodes[1], K_content)
             = PropertyOf(inMemoryNodes[1], K_content)

\* the nodes of the store whose serialised properties contain the topic,
\* letter case ignored
Matching(topic) ==
    {i \in 1..Len(inMemoryNodes) :
        OccursIgnoringCase(topic, JSONStringifyObject(inMemoryNodes[i].properties))}

\* r is the subsequence of s at the indices in keep, in the order of s
IsSubsequenceAt(r, s, keep) ==
    /\ Len(r) = Cardinality(keep)
    /\ \A k \in 1..Len(r) :
          \E i \in keep :
              /\ r[k] = s[i]
              /\ Cardinality({j \in keep : j < i}) = k - 1

C10_QueryResult ==
    call.op = "query" =>
        /\ IsSubsequenceAt(call.result.nodes, inMemoryNodes, Matching(call.args[1]))
        /\ IsSubsequenceAt(call.result.links, inMemoryLinks,
              {i \in 1..Len(inMemoryLinks) :
                  \E k \in 1..Len(call.result.nodes) :
                      call.result.nodes[k].id
                          \in {inMemoryLinks[i].source, inMemoryLinks[i].target}})

\* C10: in every store state query(topic) returns exactly the nodes whose
\* serialised properties contain topic, letter case ignored, in insertion
\* order, with exactly the stored links that have a returned node's id as
\* source or target; and query changes neither nodes nor links.
C10_QueryIsExactAndReadOnly ==
    /\ []C10_QueryResult
    /\ [][QueryStep => UNCHANGED <<inMemoryNodes, inMemoryLinks>>]_vars

\* C10 witness: a query has returned a node that matches its topic only when
\* letter case is ignored, together with a stored link of that node.
C10_Witness ==
    /\ call.op = "query"
    /\ \E k \in 1..Len(call.result.nodes) :
          ~includes(JSONStringifyObject(call.result.nodes[k].properties), call.args[1])
    /\ Len(call.result.links) >= 1

----------------------------------------------------------------------------
(* Properties of the reconciler, under SpecRc *)

LinkIndices(updates) == {i \in 1..Len(updates) : updates[i].type = "link"}
TagIndices(updates) == {i \in 1..Len(updates) : updates[i].type = "tag"}

\* the positions of the result that refer to input object i
ResultPositions(i) == {k \in 1..Len(rcResult) : rcResult[k] = i}

SetMax(S) == CHOOSE m \in S : \A x \in S : x <= m

\* C6: for every target of a link update of the batch the output holds exactly
\* one link update with that target, the first of the input link updates with
\* that target that carry the highest strength.
C6_LinkMergeKeepsMax ==
    call.op = "resolveConflicts" =>
        \A target \in {rcInput[i].data.target : i \in LinkIndices(rcInput)} :
            LET same == {i \in LinkIndices(rcInput) : rcInput[i].data.target = target}
                given == {rcInput[i].data.strength[1] :
                             i \in {j \in same : rcInput[j].data.strength # <<>>}}
                best == IF given = {} THEN same
                        ELSE {i \in same : rcInput[i].data.strength = <<SetMax(given)>>}
                first == CHOOSE i \in best : \A j \in best : i <= j
            IN  /\ Cardinality(UNION {ResultPositions(i) : i \in same}) = 1
                /\ Cardinality(ResultPositions(first)) = 1

\* C7: a tag update is retained by resolveConflicts exactly when no earlier
\* tag update of the batch has the same set of tags.
C7_TagDedupBySet ==
    call.op = "resolveConflicts" =>
        \A i \in TagIndices(rcInput) :
            LET dup == \E j \in TagIndices(rcInput) :
                          /\ j < i
                          /\ Range(rcInput[j].data.tags) = Range(rcInput[i].data.tags)
            IN  Cardinality(ResultPositions(i)) = (IF dup THEN 0 ELSE 1)

\* C8: every update that is neither a tag nor a link is in the output exactly
\* once and unchanged, and the retained updates of each type keep the
\* relative order they had in the input.
C8_PassThroughAndOrder ==
    call.op = "resolveConflicts" =>
        /\ \A i \in 1..Len(rcInput) :
              rcInput[i].type \notin {"tag", "link"} =>
                  /\ Cardinality(ResultPositions(i)) = 1
                  /\ rcUpdates[i] = rcInput[i]
        /\ \A k, l \in 1..Len(rcResult) :
              (k < l /\ rcUpdates[rcResult[k]].type = rcUpdates[rcResult[l]].type)
                  => rcResult[k] < rcResult[l]

----------------------------------------------------------------------------
(* Properties of link maintenance, under SpecLinks *)

WeakStep == now' = now /\ call'.op = "queryWeakLinks"

RemoveStep == now' = now /\ call'.op = "removeLink"

\* the stored links whose strength is below a threshold
Below(threshold) ==
    {i \in 1..Len(inMemoryLinks) : inMemoryLinks[i].strength < threshold}

\* C11: in every store state queryWeakLinks returns exactly the stored links
\* whose strength is strictly below the threshold, in stored order; a link
\* whose strength equals the threshold is left out.
C11_WeakLinksBelowThreshold ==
    call.op = "queryWeakLinks" =>
        IsSubsequenceAt(call.result.links, inMemoryLinks, Below(call.args[1].threshold))

\* C11 witness: a weak-link query has returned a link and left out a stored
\* link whose strength equals the threshold.
C11_Witness ==
    /\ call.op = "queryWeakLinks"
    /\ Len(call.result.links) >= 1
    /\ \E i \in 1..Len(inMemoryLinks) :
          inMemoryLinks[i].strength = call.args[1].threshold

\* C12: queryWeakLinks returns, of the links below the threshold, only those
\* last touched (created or strengthened) within the last `days` days of the
\* call.
C12_WeakLinksWithinDays ==
    [][WeakStep =>
          IsSubsequenceAt(call'.result.links, inMemoryLinks,
              {i \in Below(call'.args[1].threshold) :
                  linkTouched[i] >= now - call'.args[1].days * DayMs})]_vars

\* the stored links with a given source and target
LinksBetween(source, target) ==
    {i \in 1..Len(inMemoryLinks) :
        inMemoryLinks[i].source = source /\ inMemoryLinks[i].target = target}

\* C13: incrementLinkWeight(source, target) changes no node; when a link
\* source->target is stored it sets one such link's strength to
\* min(1.0, strength + 0.1) and leaves every other link as it is; when none is
\* stored (a link target->source or not) it raises no error and leaves the
\* whole store as it is.
C13_IncrementFrame ==
    [][IncrementStep =>
          LET found == LinksBetween(call'.args[1], call'.args[2])
          IN  /\ inMemoryNodes' = inMemoryNodes
              /\ Len(inMemoryLinks') = Len(inMemoryLinks)
              /\ ~call'.threw
              /\ IF found = {}
                 THEN inMemoryLinks' = inMemoryLinks
                 ELSE \E i \in found :
                         /\ inMemoryLinks'[i] =
                               [inMemoryLinks[i] EXCEPT
                                   !.strength = Min(100, inMemoryLinks[i].strength + 10)]
                         /\ \A j \in 1..Len(inMemoryLinks) \ {i} :
                               inMemoryLinks'[j] = inMemoryLinks[j]]_vars

\* C13 witness: incrementLinkWeight(b, a) has strengthened the link b->a
\* (created at 0.95) to 1.0 while a link a->b is still at 0.95.
C13_Witness ==
    /\ call.op = "incrementLinkWeight"
    /\ call.args = << <<"b">>, <<"a">> >>
    /\ \E i, j \in 1..Len(inMemoryLinks) :
          /\ inMemoryLinks[i].source = <<"b">> /\ inMemoryLinks[i].strength = 100
          /\ inMemoryLinks[j].source = <<"a">> /\ inMemoryLinks[j].strength = 95

\* C14: after removeLink(id) no stored link has that id; removeLink changes
\* no node and no other link; removeLink of an id that is not stored raises
\* no error and changes nothing; and a second removeLink(id) right after the
\* first leaves the store as the first left it.
C14_RemoveLinkIdempotent ==
    [][RemoveStep =>
          LET linkId == call'.args[1]
              others == SelectSeq(inMemoryLinks, LAMBDA link : link.id # linkId)
          IN  /\ \A i \in 1..Len(inMemoryLinks') : inMemoryLinks'[i].id # linkId
              /\ SelectSeq(inMemoryLinks', LAMBDA link : link.id # linkId) = others
              /\ inMemoryNodes' = inMemoryNodes
              /\ ~call'.threw
              /\ (call.op = "removeLink" /\ call.args[1] = linkId)
                    => inMemoryLinks' = inMemoryLinks]_vars

ReaderStep == now' = now /\ call'.op \in {"query", "queryWeakLinks", "getStats"}

AnyApplyStep == now' = now /\ call'.op = "applyUpdates"

\* what the reader of a step returns on a given store
Observed(op, args, nodes, links, t) ==
    CASE op = "getStats" -> getStats(nodes, links)
      [] op = "queryWeakLinks" ->
            [nodes |-> <<>>, links |-> queryWeakLinks(links, args[1], t)]
      [] OTHER -> query(nodes, links, args[1])

RECURSIVE StoreAfter(_, _, _, _)
\* the store once the updates are all applied at reading t (up to the first
\* that fails)
StoreAfter(nodes, links, updates, t) ==
    IF updates = <<>> \/ Throws(Head(updates))
    THEN [nodes |-> nodes, links |-> links]
    ELSE StoreAfter(DispatchNodes(nodes, Head(updates), t),
                    DispatchLinks(links, Head(updates), t), Tail(updates), t)

\* C19: a reader (query, queryWeakLinks, getStats) that runs while an
\* applyUpdates call is part-way through its batch returns what it would
\* return on the store as it was before the batch, or what it would return
\* once the whole batch is applied; never the view of a proper prefix.
C19_BatchAtomicForReaders ==
    [][(ReaderStep /\ batch # <<>>) =>
          LET all == StoreAfter(inMemoryNodes, inMemoryLinks, batch, now)
          IN  \/ call'.result = Observed(call'.op, call'.args, batchBefore.nodes,
                                         batchBefore.links, now)
              \/ call'.result = Observed(call'.op, call'.args, all.nodes,
                                         all.links, now)]_vars

\* C20: applyUpdates handles the updates of a batch in order; when the
\* handling of an update fails the error is raised to the caller, the store
\* stays as the updates before it left it (nothing is rolled back) and the
\* updates after it are never handled.
C20_FailureAbortsTheRest ==
    [][AnyApplyStep =>
          /\ batch # <<>> => call'.update = Head(batch)
          /\ IF call'.update.type = "tag" /\ ~call'.update.data.tagsGiven
             THEN /\ call'.threw
                  /\ inMemoryNodes' = inMemoryNodes
                  /\ inMemoryLinks' = inMemoryLinks
                  /\ batch' = <<>>
             ELSE /\ ~call'.threw
                  /\ batch # <<>> => batch' = Tail(batch)
                  /\ \A i \in 1..Len(inMemoryLinks) :
                        inMemoryLinks'[i] = inMemoryLinks[i]]_vars

\* C20 witness: an update has just failed after an earlier update of the
\* same millisecond created a link, and the link is in the store.
C20_Witness ==
    /\ call.op = "applyUpdates" /\ call.threw
    /\ batch = <<>>
    /\ \E i \in 1..Len(inMemoryLinks) :
          inMemoryLinks[i].id = LinkId(now) /\ linkTouched[i] = now

----------------------------------------------------------------------------
(* Properties of the pattern extraction, under SpecEp *)

\* activities i and j of the log are less than 5 minutes apart
InWindow(i, j) ==
    Abs(activities[i].timestamp - activities[j].timestamp) < 5

\* the activity pairs (i < j) of the log, less than 5 minutes apart, whose
\* note ids are the two of the unordered pair idPair
CountedPairs(idPair) ==
    {ij \in (1..Len(activities)) \X (1..Len(activities)) :
        /\ ij[1] < ij[2]
        /\ {activities[ij[1]].noteId, activities[ij[2]].noteId} = idPair
        /\ InWindow(ij[1], ij[2])}

PatternPair(p) == {p.sourceNote, p.targetNote}

\* C15: extractPatterns returns at most one pattern per unordered pair of
\* note ids, and the frequency of a pattern is the number of activity pairs
\* (i < j) with its two note ids, in either order, whose timestamps are less
\* than 5 minutes apart (pairs 5 minutes or more apart count nowhere).
C15_PatternPerPairInWindow ==
    call.op = "extractPatterns" =>
        /\ \A k, l \in 1..Len(patterns) :
              PatternPair(patterns[k]) = PatternPair(patterns[l]) => k = l
        /\ \A k \in 1..Len(patterns) :
              patterns[k].frequency
                  = Cardinality(CountedPairs(PatternPair(patterns[k])))

\* C16: the lastAccessed of a pattern is the latest timestamp among the
\* activities of the pairs counted for it (of each pair, the later of its
\* two timestamps), whatever the order of the log.
C16_LastAccessedIsLatest ==
    call.op = "extractPatterns" =>
        \A k \in 1..Len(patterns) :
            LET counted == CountedPairs(PatternPair(patterns[k]))
            IN  counted # {} =>
                    patterns[k].lastAccessed
                        = SetMax({Max(activities[ij[1]].timestamp,
                                      activities[ij[2]].timestamp) * 60000 :
                                     ij \in counted})

----------------------------------------------------------------------------
(* Properties of consolidation, under SpecCons *)

ConsolidateStep == now' = now /\ call'.op = "consolidate"

\* C17: the number strengthenLinks returns (linksStrengthened of the result)
\* is the number of patterns of frequency above 2 for which the store holds
\* a link from the pattern's source note to its target note.
C17_CountsLinksTouched ==
    [][ConsolidateStep =>
          call'.result.linksStrengthened
              = Cardinality({k \in 1..Len(patterns') :
                               /\ patterns'[k].frequency > 2
                               /\ LinksBetween(patterns'[k].sourceNote,
                                               patterns'[k].targetNote) # {}})]_vars

\* C18: consolidate adds and removes no node and no link, and changes
\* nothing of a link but its strength.
C18_ConsolidateOnlyStrengthens ==
    [][ConsolidateStep =>
          /\ inMemoryNodes' = inMemoryNodes
          /\ Len(inMemoryLinks') = Len(inMemoryLinks)
          /\ \A i \in 1..Len(inMemoryLinks) :
                [inMemoryLinks'[i] EXCEPT !.strength = 0]
                    = [inMemoryLinks[i] EXCEPT !.strength = 0]]_vars

\* C18 witness: a consolidation with a pattern of frequency above 2 has
\* raised the link a->b from 0.95 to 1.0 beside a link b->a still at 0.95,
\* and one of its patterns has no link in the store.
C18_Witness ==
    /\ call.op = "consolidate"
    /\ \E i, j \in 1..Len(inMemoryLinks) :
          /\ inMemoryLinks[i].source = <<"a">> /\ inMemoryLinks[i].strength = 100
          /\ inMemoryLinks[j].source = <<"b">> /\ inMemoryLinks[j].strength = 95
    /\ \E k \in 1..Len(patterns) :
          /\ patterns[k].frequency > 2
          /\ LinksBetween(patterns[k].sourceNote, patterns[k].targetNote) = {}

----------------------------------------------------------------------------
(* Properties of the store under every operation, under SpecNodes *)

\* C21: nodes are never deleted and never change type: whatever operation
\* acts (applyUpdates, incrementLinkWeight, removeLink, query, consolidate),
\* every node id present before the step is present after it with the same
\* type, and the node count does not decrease.
C21_NodesKeptWithTheirType ==
    [][/\ Len(inMemoryNodes') >= Len(inMemoryNodes)
       /\ \A i \in 1..Len(inMemoryNodes) :
             /\ MapHas(inMemoryNodes', inMemoryNodes[i].id)
             /\ inMemoryNodes'[MapIndex(inMemoryNodes', inMemoryNodes[i].id)].type
                    = inMemoryNodes[i].type]_vars

\* a store that holds two nodes of different types has been consolidated, or
\* has had a link removed, with the nodes still there
C21_Witness ==
    /\ call.op \in {"consolidate", "removeLink"}
    /\ Len(inMemoryNodes) = 2
    /\ inMemoryNodes[1].type # inMemoryNodes[2].type

----------------------------------------------------------------------------
(* Properties of the dispatch, under SpecActions *)

\* the update with another action in its action field
WithAction(update, action) == [update EXCEPT !.action = action]

\* C22: applyUpdates dispatches on update.type alone: on the same store and
\* under the same clock reading, the update a step handles and the same
\* update with any other action (create, update, delete, merge) fail alike,
\* and where they do not fail they leave the same nodes and links; so two
\* batches that differ in their action fields only leave equal stores.
C22_DispatchIgnoresAction ==
    [][AnyApplyStep =>
         \A action \in UpdateActions :
            LET other == WithAction(call'.update, action)
            IN  /\ Throws(other) = call'.threw
                /\ ~call'.threw =>
                      /\ inMemoryNodes' = DispatchNodes(inMemoryNodes, other, now)
                      /\ inMemoryLinks' = DispatchLinks(inMemoryLinks, other, now)
                /\ call'.threw =>
                      /\ inMemoryNodes' = inMemoryNodes
                      /\ inMemoryLinks' = inMemoryLinks]_vars

\* a batch that ends with an update of action merge has been applied and
\* has left a Note node and a link in the store
C22_Witness ==
    /\ call.op = "applyUpdates"
    /\ call.update.action = "merge"
    /\ batch = <<>>
    /\ Len(inMemoryNodes) = 1
    /\ Len(inMemoryLinks) = 1
    /\ inMemoryNodes[1].createdAt = now
    /\ \E i \in 1..Len(inMemoryNodes) : inMemoryNodes[i].type = "Note"

----------------------------------------------------------------------------
(* Properties of the VectorStore, under SpecVs and SpecCos *)

\* C23: the fallback embedding is a function of the content alone: any two
\* stored documents of the same content hold the same embedding, whatever
\* was added, searched or deleted between the two additions.
C23_EmbeddingOfContentAlone ==
    \A i \in 1..Len(inMemoryStore) : \A j \in 1..Len(inMemoryStore) :
        inMemoryStore[i].content = inMemoryStore[j].content
            => inMemoryStore[i].embedding = inMemoryStore[j].embedding

\* two documents of the same content, added under different ids (the index
\* holds two documents at most here, so the first was added before the
\* second and something was deleted or nothing was stored in between)
C23_Witness ==
    /\ Len(inMemoryStore) = 2
    /\ inMemoryStore[1].content = inMemoryStore[2].content
    /\ inMemoryStore[1].id # inMemoryStore[2].id
    /\ call.op = "addDocument"

\* the vector the claim describes: 100 components, component k the count of
\* the k-th first-seen distinct lower-case word divided by the magnitude of
\* the counts, 0 where there is no k-th word
ClaimedEmbedding(text) ==
    LET words == SplitWhitespace(toLowerCase(text), <<>>)
        distinct == VocabOf(words, <<>>)
        count == [k \in 1..Min(Len(distinct), EmbeddingDims) |->
                     FromInt(Cardinality({i \in 1..Len(words) : words[i] = distinct[k]}))]
        magnitude == FSqrt(SumOfSquares(count, FZero))
    IN  [k \in 1..EmbeddingDims |->
            IF k <= Len(count) THEN FDiv(count[k], magnitude) ELSE FZero]

\* C24: the fallback embedding of any content is a vector of exactly 100
\* components, component k the normalized count of the k-th first-seen
\* distinct lower-case word; words of first-seen index 100 or more
\* contribute to no component.
C24_EmbeddingHasHundredComponents ==
    \A i \in 1..Len(inMemoryStore) :
        /\ Len(inMemoryStore[i].embedding) = EmbeddingDims
        /\ inMemoryStore[i].embedding = ClaimedEmbedding(inMemoryStore[i].content)

IsNonZero(a) == \E k \in 1..Len(a) : a[k] # FZero

\* C25: similarity(a, b) = similarity(b, a) for all vector pairs, and
\* similarity(a, a) = 1 for every non-zero vector a.
C25_CosineSymmetricAndUnitOnSelf ==
    call.op = "cosineSimilarity" =>
        LET a == call.args[1]
            b == call.args[2]
        IN  /\ call.result = cosineSimilarity(b, a)
            /\ (a = b /\ IsNonZero(a)) => call.result = FOne

\* C26: cosineSimilarity never raises: it returns 0 for two vectors of
\* different lengths, and 0 when either vector has zero magnitude (the empty
\* vector included).
C26_CosineZeroOnMismatchOrZeroVector ==
    call.op = "cosineSimilarity" =>
        LET a == call.args[1]
            b == call.args[2]
        IN  /\ ~call.threw
            /\ Len(a) # Len(b) => call.result = FZero
            /\ (~IsNonZero(a) \/ ~IsNonZero(b)) => call.result = FZero

\* a non-zero vector has been compared with a zero vector of its length
C26_Witness ==
    /\ call.op = "cosineSimilarity"
    /\ Len(call.args[1]) = 2
    /\ Len(call.args[2]) = 2
    /\ IsNonZero(call.args[1])
    /\ ~IsNonZero(call.args[2])
    /\ call.result = FZero

SearchStep == call'.op = "search"

\* the similarity search computes for a stored document
SimilarityTo(text, doc) ==
    cosineSimilarity(generateSimpleEmbedding(text), doc.embedding)

C27_SearchResult ==
    call.op = "search" =>
        LET text == call.args[1]
            limit == call.args[2]
            r == call.result
            n == Len(inMemoryStore)
            sim == [i \in 1..n |-> SimilarityTo(text, inMemoryStore[i])]
        IN  /\ Len(r) = Min(limit, n)
            /\ \A k \in 1..(Len(r) - 1) : ~FLess(r[k].similarity, r[k + 1].similarity)
            /\ \E f \in [1..Len(r) -> 1..n] :
                  /\ \A k \in 1..Len(r) : \A l \in 1..Len(r) : f[k] = f[l] => k = l
                  /\ \A k \in 1..Len(r) :
                        r[k] = [id |-> inMemoryStore[f[k]].id,
                                content |-> inMemoryStore[f[k]].content,
                                metadata |-> inMemoryStore[f[k]].metadata,
                                similarity |-> sim[f[k]]]
                  /\ \A j \in (1..n) \ {f[k] : k \in 1..Len(r)} :
                        \A k \in 1..Len(r) : ~FLess(r[k].similarity, sim[j])

\* C27: in the in-memory index search(query, limit) with limit >= 0 returns
\* min(limit, number of stored documents) results, each a stored document
\* with its similarity to the query, in non-increasing order of similarity,
\* no stored document left out having a higher similarity than a returned
\* one; and search does not change the index.
C27_SearchTopByLimitAndReadOnly ==
    /\ []C27_SearchResult
    /\ [][SearchStep => inMemoryStore' = inMemoryStore]_vars

\* a search with limit 1 has returned the second of two stored documents and
\* left out the first, of lower similarity
C27_Witness ==
    /\ call.op = "search"
    /\ call.args[2] = 1
    /\ Len(inMemoryStore) = 2
    /\ Len(call.result) = 1
    /\ call.result[1].id = inMemoryStore[2].id
    /\ FLess(SimilarityTo(call.args[1], inMemoryStore[1]), call.result[1].similarity)

----------------------------------------------------------------------------
(* Properties of generateInsights, under SpecGi *)

\* the notes that appear across the patterns
NotesOf(ps) ==
    {ps[i].sourceNote : i \in 1..Len(ps)} \cup {ps[i].targetNote : i \in 1..Len(ps)}

RECURSIVE SummedFrequency(_, _)
\* the frequency of the patterns summed over the places where the note
\* stands as source or as target
SummedFrequency(ps, note) ==
    IF ps = <<>> THEN 0
    ELSE (IF ps[1].sourceNote = note THEN ps[1].frequency ELSE 0)
         + (IF ps[1].targetNote = note THEN ps[1].frequency ELSE 0)
         + SummedFrequency(Tail(ps), note)

\* the patterns seen once and last accessed less than 24 hours before t
NewPatterns(ps, t) ==
    {i \in 1..Len(ps) : ps[i].frequency = 1 /\ t - ps[i].lastAccessed < DayMs}

InsightsOfKind(insights, kind) ==
    {k \in 1..Len(insights) : insights[k].kind = kind}

\* C28: generateInsights emits the 'most connected' insight if and only if
\* at least 3 distinct notes appear across the patterns, and it names 3
\* notes none of which has a lower summed frequency than a note it does not
\* name; it emits the 'new connections' insight if and only if at least one
\* pattern has frequency 1 and was last accessed within the last 24 hours,
\* and it reports the number of such patterns; it emits nothing else.
C28_InsightsExactlyTheTwoKinds ==
    call.op = "generateInsights" =>
        LET insights == call.result
            most == InsightsOfKind(insights, "most_connected")
            new == InsightsOfKind(insights, "new_connections")
        IN  /\ Len(insights) <= 2
            /\ most \cup new = 1..Len(insights)
            /\ Cardinality(most) = (IF Cardinality(NotesOf(patterns)) >= 3 THEN 1 ELSE 0)
            /\ Cardinality(new) = (IF NewPatterns(patterns, now) # {} THEN 1 ELSE 0)
            /\ \A k \in most :
                  LET named == Range(insights[k].notes)
                  IN  /\ Len(insights[k].notes) = 3
                      /\ Cardinality(named) = 3
                      /\ named \subseteq NotesOf(patterns)
                      /\ \A x \in named : \A y \in NotesOf(patterns) \ named :
                            SummedFrequency(patterns, x) >= SummedFrequency(patterns, y)
            /\ \A k \in new :
                  insights[k].count = Cardinality(NewPatterns(patterns, now))

\* both insights have been emitted: four notes appear, of which the three
\* named have higher sums than the fourth, and of the patterns seen once one
\* is counted and one, last accessed 24 hours ago or more, is not
C28_Witness ==
    /\ call.op = "generateInsights"
    /\ Len(call.result) = 2
    /\ Cardinality(NotesOf(patterns)) = 4
    /\ \E y \in NotesOf(patterns) \ Range(call.result[1].notes) :
          \A x \in Range(call.result[1].notes) :
              SummedFrequency(patterns, x) > SummedFrequency(patterns, y)
    /\ \E i \in 1..Len(patterns) :
          patterns[i].frequency = 1 /\ now - patterns[i].lastAccessed >= DayMs
    /\ call.result[2].count = 1

----------------------------------------------------------------------------
(* Consolidation and the direction of a stored link, under SpecCons *)

\* C29: consolidation strengthens a link whichever way it is stored: when
\* the store holds a link between notes X and Y (X->Y or Y->X) of strength
\* below 1.0 and the activity log has more than two co-accesses of X and Y
\* within the 5-minute window, that link's strength is higher after
\* consolidate than before.
C29_StrengthensEitherDirection ==
    [][ConsolidateStep =>
          \A i \in 1..Len(inMemoryLinks) :
              (/\ inMemoryLinks[i].strength < 100
               /\ Cardinality(CountedPairs({inMemoryLinks[i].source,
                                            inMemoryLinks[i].target})) > 2)
                  => inMemoryLinks'[i].strength > inMemoryLinks[i].strength]_vars

----------------------------------------------------------------------------
(* The strength a link is stored with, under SpecStrength *)

\* C30: a link created by applyUpdates from a link update carrying a
\* strength s, 0 <= s <= 1, is stored with strength exactly s, and is
\* therefore returned by queryWeakLinks for every threshold greater than s;
\* only an update with no strength field gets the default strength 1.0.
C30_StoredWithGivenStrength ==
    [][ApplyStep("link") =>
          LET given == call'.update.data.strength
              link == inMemoryLinks'[Len(inMemoryLinks')]
          IN  /\ Len(inMemoryLinks') = Len(inMemoryLinks) + 1
              /\ given = <<>> => link.strength = DefaultStrength
              /\ given # <<>> =>
                    /\ link.strength = given[1]
                    /\ \A threshold \in StThresholds :
                          threshold > given[1] =>
                              link \in Range(queryWeakLinks(inMemoryLinks',
                                                 [days |-> 0, threshold |-> threshold],
                                                 now'))]_vars

----------------------------------------------------------------------------
(* The batch passed to resolveConflicts, under SpecRc *)

\* C31: resolveConflicts does not modify its input: after the call every
\* update of the batch, the order of each tag update's data.tags included,
\* is as it was before the call, so that applying an update of the batch to
\* a store gives the same nodes, in the same insertion order, whether the
\* batch went through resolveConflicts first or not.
C31_InputUnmodified ==
    call.op = "resolveConflicts" =>
        /\ rcUpdates = rcInput
        /\ \A i \in 1..Len(rcInput) :
              DispatchNodes(<<>>, rcUpdates[i], now) = DispatchNodes(<<>>, rcInput[i], now)

----------------------------------------------------------------------------
(* Deleting and updating documents, under SpecDocs *)

\* the places of the index that hold a document of the given id
DocsWithId(id) == {i \in 1..Len(inMemoryStore) : inMemoryStore[i].id = id}

\* C32: after deleteDocument(id) the in-memory index holds no document of
\* that id, so that a search returns none, and after updateDocument(doc) it
\* holds exactly one document of doc.id, with doc's content; whatever calls
\* of addDocument, addDocuments, updateDocument and deleteDocument came
\* before.
C32_DeleteRemovesUpdateReplaces ==
    /\ call.op = "deleteDocument" =>
          /\ DocsWithId(call.args[1]) = {}
          /\ \A text \in VsQueries :
                \A k \in 1..Len(SearchInMemory(inMemoryStore, text, MaxDocs)) :
                    SearchInMemory(inMemoryStore, text, MaxDocs)[k].id # call.args[1]
    /\ call.op = "updateDocument" =>
          /\ Cardinality(DocsWithId(call.args[1].id)) = 1
          /\ \A i \in DocsWithId(call.args[1].id) :
                inMemoryStore[i].content = call.args[1].content

----------------------------------------------------------------------------
(* Similarity and common words, under SpecSim *)

\* the words of a text, as generateSimpleEmbedding splits it
WordsOf(text) == Range(SplitWhitespace(toLowerCase(text), <<>>))

\* C33: a stored document that has no word in common with the query gets
\* similarity 0 from search, and so is never ranked above a document whose
\* content is the query.
C33_NoCommonWordScoresZero ==
    call.op = "search" =>
        LET text == call.args[1]
            r == call.result
        IN  /\ \A k \in 1..Len(r) :
                  WordsOf(r[k].content) \cap WordsOf(text) = {} => r[k].similarity = FZero
            /\ \A i \in 1..Len(inMemoryStore) : \A k \in 1..Len(r) :
                  (/\ inMemoryStore[i].content = text
                   /\ WordsOf(r[k].content) \cap WordsOf(text) = {})
                      => \E l \in 1..(k - 1) : r[l].content = text

----------------------------------------------------------------------------
(* Documents added while the backend is being initialised, under SpecBackend *)

\* C34: every document for which addDocument has completed is a candidate
\* of every later search: a search whose limit is at least the number of
\* documents added returns it, whether initialize() has completed before,
\* between or after the calls.
C34_AddedDocumentsAreSearched ==
    [][(/\ call'.op = "search"
        /\ call'.args[2] >= Len(inMemoryStore) + Len(chroma))
          => \A id \in {inMemoryStore[i].id : i \in 1..Len(inMemoryStore)}
                        \cup {chroma[i].id : i \in 1..Len(chroma)} :
                \E k \in 1..Len(call'.result) : call'.result[k].id = id]_vars

----------------------------------------------------------------------------
(* Properties of the workflow graph, under SpecWf and SpecWfRun *)

NoNodeTwice ==
    \A i \in 1..Len(executed) : \A j \in 1..Len(executed) :
        executed[i] = executed[j] => i = j

EndsAfterResponse ==
    atNode = "END" =>
        /\ executed # <<>>
        /\ executed[Len(executed)] = "response"
        /\ state.processing_stage = "complete"

\* C35: every run of the workflow graph terminates: from classification on,
\* whatever the classification and whichever nodes set error, no node is
\* executed twice, and the run reaches the response node, which sets
\* processing_stage to 'complete', and then END.
C35_EveryRunTerminates ==
    /\ []NoNodeTwice
    /\ []EndsAfterResponse
    /\ <>(atNode = "END")

\* a run of five nodes has ended: learning content, and an error set by the
\* last specialist before the response
C35_Witness ==
    /\ atNode = "END"
    /\ executed = <<"classification", "learning_material", "graph_synthesis",
                    "auto_tagging", "response">>
    /\ state.error = FailureOf("auto_tagging")

\* a step in which a node returns with error set
SetsError == state.error = "null" /\ state'.error # "null"

\* with error set, only the response node may still run
OnlyResponseAfterError ==
    state.error # "null" => atNode \in {"response", "END"}

ExecutedSpecialists == SelectSeq(executed, LAMBDA node : node \in Specialists)

\* C37: for content classified as 'solution' or 'idea' a run without error
\* executes curation, graph_synthesis and auto_tagging before
\* pattern_recognition: the specialists selectSpecialists selects for the
\* classification, in the same order.
C37_SolutionRunsSelectedSpecialists ==
    (/\ atNode = "END"
     /\ state.error = "null"
     /\ state.content_classification.type \in {"solution", "idea"})
        => ExecutedSpecialists = selectSpecialists(state).selectedAgents

====
